---------------------------- MODULE Spec2Model ----------------------------
(***************************************************************************)
(* Model of the CabinetLight controller (cabinetLight.cpp / cabinetLight.h *)
(* of 2025-09-13) together with the main loop that drives it (main.cpp).   *)
(*                                                                         *)
(* Two execution contexts are modelled: the GPIO edge interrupt            *)
(* (cabinet_gpio_callback -> gpioCallback -> onGpioIrq) and the main loop  *)
(* (process(); sleep_ms(50); forever).  process() is split at the points   *)
(* where the interrupt and the sensor inputs can be observed to            *)
(* interleave: the atomic exchange of pendingMask, the evaluation of the   *)
(* drained bits, the polling fallback and the fade loop.                   *)
(*                                                                         *)
(* Time is counted in milliseconds; the code compares microseconds, so     *)
(* absolute_time_diff_us multiplies by 1000.                               *)
(***************************************************************************)
EXTENDS Integers, Sequences, FiniteSets, TLC

(***************************************************************************)
(* Program constants.                                                      *)
(***************************************************************************)
DEV_COUNT == 4
PWM_WRAP == 12500
DEBOUNCE_MS == 100
FADE_STEP == 1000
FADING_STEP_MS == 50
PWM_TEST_DELAY_MS == 100
LOOP_SLEEP_MS == 50
MAX_GPIO == 29
STARTUP_LED_ON_MS == 300
STARTUP_LED_OFF_MS == 50
\* enum class LogLevel { ERROR = 0, WARN = 1, INFO = 2, DEBUG = 3 }
LOG_INFO == 2
LOG_DEBUG == 3

DEFAULT_LED_PINS == [i \in 0..(DEV_COUNT - 1) |-> 2 + i]
DEFAULT_SENSOR_PINS == [i \in 0..(DEV_COUNT - 1) |-> 6 + i]

(***************************************************************************)
(* Bounds of the model.                                                    *)
(***************************************************************************)
\* number of main-loop sleeps of LOOP_SLEEP_MS the clock may advance
MaxSleeps == 6
\* number of sensor edges / level changes the environment produces
MaxEdges == 3
\* number of configuration calls (setSensorPolarity, setPollingFallback)
MaxConfig == 1
MaxFadeSleeps == 56
MaxFadeEdges == 3
MaxPinSleeps == 4
MaxPinEdges == 2
MaxPinConfig == 1
MaxRefSleeps == 30
MaxPollSleeps == 6
MaxPollEdges == 2
MaxRetargets == 2
MaxStartSleeps == 30
MaxStartConfig == 2
MaxReconfSleeps == 2
MaxReconfEdges == 2
MaxReconfConfig == 2
MaxLegacyEdges == 2
MaxLegacyCalls == 1
MaxLegacyMs == 260
LegacyIdleMs == 50

Channels == 0..(DEV_COUNT - 1)
Gpios == 0..MAX_GPIO

\* the constructor runs setupPwmLEDs for four pins, each sleeping
\* PWM_TEST_DELAY_MS, so it returns no earlier than this
BootTime == DEV_COUNT * PWM_TEST_DELAY_MS
TimeLimit == BootTime + MaxSleeps * LOOP_SLEEP_MS

\* one door moves per run; which one is open
WiredSets == {{i} : i \in Channels}

VARIABLES
    ledPins,          \* std::array<uint8_t, DEV_COUNT>
    sensorPins,       \* std::array<uint8_t, DEV_COUNT>
    lastTriggerTime,  \* std::array<absolute_time_t, DEV_COUNT>, in ms
    ledState,         \* std::array<bool, DEV_COUNT>
    currentLevel,     \* std::array<uint16_t, DEV_COUNT>
    targetLevel,      \* std::array<uint16_t, DEV_COUNT>
    fading,           \* std::array<bool, DEV_COUNT>
    lastRawState,     \* std::array<bool, DEV_COUNT>
    pendingMask,      \* std::atomic<uint8_t>
    sensorActiveLow,  \* std::array<bool, DEV_COUNT>
    pollingFallback,  \* bool
    initialized,      \* bool
    gpioLevel,        \* hardware: input level of every GPIO
    irqEnabled,       \* hardware: GPIOs whose edge interrupt is enabled
    pwmLevel,         \* hardware: duty last written per GPIO
    now,              \* hardware: get_absolute_time(), in ms
    pc,               \* position of the main loop inside process()
    pending,          \* process(): the local `pending`
    lastAccept,       \* history: time of the last accepted transition, -1 if none
    irqsSinceDrain,   \* history: edge interrupts per channel since the last drain
    watch,            \* history: what happened last to a channel's input, see Armed, Flipped
    redirected,       \* history: retargeted while fading, until the next fade step
    edgesLeft,        \* environment: sensor events still to come
    configsLeft,      \* environment: configuration calls still to come
    wired,            \* environment: the channels whose door moves in this run
    horizon,          \* environment: the time at which the main loop is cut off
    pwmEnabled,       \* hardware: PWM slices whose output is enabled
    logLevel,         \* static LogLevel logLevel
    lastCall,         \* history: the last configuration call, its argument and result
    irqPrints         \* history: lines printed from interrupt context

pinVars == <<ledPins, sensorPins, initialized>>
ctrlVars == <<pinVars, lastTriggerTime, ledState, currentLevel, targetLevel,
              fading, lastRawState, pendingMask, sensorActiveLow,
              pollingFallback>>
hwVars == <<gpioLevel, irqEnabled, pwmLevel, now>>
envVars == <<wired, horizon>>
cfgVars == <<pwmEnabled, logLevel>>
histVars == <<lastAccept, irqsSinceDrain, watch, redirected>>
vars == <<ctrlVars, hwVars, pc, pending, edgesLeft, configsLeft, envVars,
          histVars, cfgVars, lastCall, irqPrints>>

(***************************************************************************)
(* Integer helpers for the fixed-width arithmetic of the code.             *)
(***************************************************************************)
Pow2(n) == IF n = 0 THEN 1 ELSE IF n = 1 THEN 2 ELSE IF n = 2 THEN 4
           ELSE IF n = 3 THEN 8 ELSE IF n = 4 THEN 16 ELSE IF n = 5 THEN 32
           ELSE IF n = 6 THEN 64 ELSE 128

U8(x) == x % 256
U16(x) == x % 65536

\* pending & (1u << i)
TestBit(mask, i) == (mask \div Pow2(i)) % 2 = 1

\* mask | bit, for a one-bit value
BitOr(mask, i) == IF TestBit(mask, i) THEN mask ELSE mask + Pow2(i)

\* the set of channels whose bit is set in mask
BitsOf(mask) == {i \in Channels : TestBit(mask, i)}

\* std::find over a DEV_COUNT array: first index holding gpio, DEV_COUNT if none
FindIndex(arr, gpio) ==
    IF \E i \in Channels : arr[i] = gpio
    THEN CHOOSE i \in Channels :
            arr[i] = gpio /\ \A j \in Channels : j < i => arr[j] # gpio
    ELSE DEV_COUNT

\* absolute_time_diff_us(from, to)
AbsoluteTimeDiffUs(from, to) == (to - from) * 1000

\* pwm_gpio_to_slice_num(gpio): two neighbouring GPIOs share one of 8 slices
PwmGpioToSliceNum(gpio) == (gpio \div 2) % 8

\* history: no configuration call has been made since construction
NoCall == [op |-> "none", arg |-> <<>>, ret |-> TRUE]


(***************************************************************************)
(* State after the constructor CabinetLight::CabinetLight() has returned.  *)
(* The default pins are valid, so every setup succeeds; the status arrays  *)
(* are filled last, which puts lastTriggerTime back to the zero timestamp. *)
(* The door of the wired channel may be in either position at boot.        *)
(***************************************************************************)
Constructed ==
    /\ ledPins = DEFAULT_LED_PINS
    /\ sensorPins = DEFAULT_SENSOR_PINS
    /\ lastTriggerTime = [i \in Channels |-> 0]
    /\ ledState = [i \in Channels |-> FALSE]
    /\ currentLevel = [i \in Channels |-> 0]
    /\ targetLevel = [i \in Channels |-> 0]
    /\ fading = [i \in Channels |-> FALSE]
    /\ lastRawState = [i \in Channels |-> FALSE]
    /\ pendingMask = 0
    /\ sensorActiveLow = [i \in Channels |-> TRUE]
    /\ pollingFallback = FALSE
    /\ initialized = TRUE
    /\ wired \in WiredSets
    /\ \E high \in SUBSET wired :
          gpioLevel = [p \in Gpios |-> \E i \in high : DEFAULT_SENSOR_PINS[i] = p]
    /\ irqEnabled = {DEFAULT_SENSOR_PINS[i] : i \in Channels}
    /\ pwmLevel = [p \in Gpios |-> 0]
    /\ now = BootTime
    /\ pc = "idle"
    /\ pending = 0
    /\ lastAccept = [i \in Channels |-> -1]
    /\ irqsSinceDrain = [i \in Channels |-> 0]
    /\ watch = [i \in Channels |-> "none"]
    /\ redirected = [i \in Channels |-> "none"]
    /\ pwmEnabled = {PwmGpioToSliceNum(DEFAULT_LED_PINS[i]) : i \in Channels}
    /\ logLevel = LOG_INFO
    /\ lastCall = NoCall
    /\ irqPrints = 0

Init ==
    /\ Constructed
    /\ edgesLeft = MaxEdges
    /\ configsLeft = MaxConfig
    /\ horizon = TimeLimit

(***************************************************************************)
(* Interrupt path.                                                         *)
(***************************************************************************)
\* faulty variants of FetchOr: the bit toggled (fetch_xor), the bit added (fetch_add)
FetchOr_Xor(mask, i) == U8(IF TestBit(mask, i) THEN mask - Pow2(i) ELSE mask + Pow2(i))
FetchOr_Add(mask, i) == U8(mask + Pow2(i))

\* pendingMask.fetch_or(static_cast<uint8_t>(1u << i))
FetchOr(mask, i) == U8(BitOr(mask, i))

\* CabinetLight::onGpioIrq: the first channel whose sensor pin is gpio
OnGpioIrq(mask, gpio) ==
    LET i == FindIndex(sensorPins, gpio)
    IN  IF i = DEV_COUNT THEN mask ELSE FetchOr(mask, i)

\* cabinet_gpio_callback -> gpioCallback -> onGpioIrq; the instance pointer
\* is set by the constructor and never cleared
GpioCallback(mask, gpio) == OnGpioIrq(mask, gpio)

\* logDebug in gpioCallback, and in onGpioIrq for a matched pin: the lines
\* printed when logLevel >= LogLevel::DEBUG
IrqLogLines(gpio) ==
    IF logLevel >= LOG_DEBUG
    THEN 1 + (IF FindIndex(sensorPins, gpio) # DEV_COUNT THEN 1 ELSE 0)
    ELSE 0

\* the channels a sensor pin belongs to
ChannelsOf(p) == {i \in Channels : sensorPins[i] = p}

\* A sensor pin sees an edge and the interrupt is delivered.  The level
\* left behind is lvl: a pulse shorter than the interrupt latency leaves
\* the level it started from.
Edge(p, lvl) ==
    /\ edgesLeft > 0
    /\ \E i \in wired : sensorPins[i] = p
    /\ p \in irqEnabled
    /\ gpioLevel' = [gpioLevel EXCEPT ![p] = lvl]
    /\ pendingMask' = GpioCallback(pendingMask, p)
    /\ edgesLeft' = edgesLeft - 1
    /\ irqsSinceDrain' = [i \in Channels |->
                            irqsSinceDrain[i] + (IF i \in ChannelsOf(p) THEN 1 ELSE 0)]
    /\ watch' = [i \in Channels |-> IF i \in ChannelsOf(p) THEN "edge" ELSE watch[i]]
    /\ irqPrints' = irqPrints + IrqLogLines(p)
    /\ UNCHANGED <<pinVars, lastTriggerTime, ledState, currentLevel, targetLevel,
                   fading, lastRawState, sensorActiveLow, pollingFallback,
                   irqEnabled, pwmLevel, now, pc, pending, configsLeft, envVars,
                   cfgVars, lastCall,
                   lastAccept, redirected>>

\* A sensor pin changes level and no interrupt is delivered (the case the
\* polling fallback exists for).
MissedEdge(p) ==
    /\ edgesLeft > 0
    /\ \E i \in wired : sensorPins[i] = p
    /\ gpioLevel' = [gpioLevel EXCEPT ![p] = ~gpioLevel[p]]
    /\ edgesLeft' = edgesLeft - 1
    /\ watch' = [i \in Channels |->
                    IF i \in ChannelsOf(p)
                    THEN (IF pollingFallback THEN "missed" ELSE "none")
                    ELSE watch[i]]
    /\ UNCHANGED <<ctrlVars, irqEnabled, pwmLevel, now, pc, pending, configsLeft,
                   envVars,
                   cfgVars, lastCall, irqPrints, lastAccept, irqsSinceDrain, redirected>>

(***************************************************************************)
(* process(): the arrays it works on, gathered in one record so that the   *)
(* loops can be written as folds over the channel index.                   *)
(***************************************************************************)
Arrays ==
    [lastTriggerTime |-> lastTriggerTime, ledState |-> ledState,
     currentLevel |-> currentLevel, targetLevel |-> targetLevel,
     fading |-> fading, lastRawState |-> lastRawState,
     pwmLevel |-> pwmLevel, now |-> now, lastAccept |-> lastAccept,
     redirected |-> redirected]

\* faulty variant of DoorOpen: the two polarities swapped
DoorOpen_Inverted(activeLow, gpio_state) ==
    IF activeLow THEN gpio_state # FALSE ELSE gpio_state = FALSE

\* bool door_open = sensorActiveLow[i] ? (gpio_state == 0) : (gpio_state != 0)
DoorOpen(activeLow, gpio_state) ==
    IF activeLow THEN gpio_state = FALSE ELSE gpio_state # FALSE

\* absolute_time_diff_us(lastTriggerTime[i], now) < DEBOUNCE_MS * 1000
InDebounce(last, t) == AbsoluteTimeDiffUs(last, t) < DEBOUNCE_MS * 1000

\* uint16_t newTarget = on ? PWM_WRAP : 0
NewTarget(on) == IF on THEN PWM_WRAP ELSE 0

\* faulty variant of FadeLed: fading is set whether or not the target changes
FadeLed_AlwaysFading(c, gpio, on) ==
    LET idx == FindIndex(ledPins, U8(gpio))
    IN  IF idx = DEV_COUNT THEN c
        ELSE [c EXCEPT !.targetLevel[idx] = NewTarget(on),
                       !.fading[idx] = TRUE]

\* faulty variant of FadeLed: a retarget restarts the fade from the far end
FadeLed_Reset(c, gpio, on) ==
    LET idx == FindIndex(ledPins, U8(gpio))
    IN  IF idx = DEV_COUNT THEN c
        ELSE IF c.targetLevel[idx] # NewTarget(on)
             THEN [c EXCEPT !.targetLevel[idx] = NewTarget(on),
                            !.currentLevel[idx] = NewTarget(~on),
                            !.fading[idx] = TRUE,
                            !.redirected[idx] =
                                IF c.fading[idx]
                                THEN (IF on THEN "up" ELSE "down")
                                ELSE @]
             ELSE c

\* CabinetLight::fadeLed(gpio, on)
FadeLed(c, gpio, on) ==
    LET idx == FindIndex(ledPins, U8(gpio))
    IN  IF idx = DEV_COUNT THEN c
        ELSE IF c.targetLevel[idx] # NewTarget(on)
             THEN [c EXCEPT !.targetLevel[idx] = NewTarget(on),
                            !.fading[idx] = TRUE,
                            !.redirected[idx] =
                                IF c.fading[idx]
                                THEN (IF on THEN "up" ELSE "down")
                                ELSE @]
             ELSE c

\* the door-state decision both paths make: fade on when the door opened,
\* fade off when it closed, nothing otherwise
Decide(c, i, door_open) ==
    IF door_open /\ ~c.ledState[i]
    THEN [FadeLed(c, ledPins[i], TRUE) EXCEPT !.ledState[i] = TRUE,
                                              !.lastAccept[i] = c.now]
    ELSE IF ~door_open /\ c.ledState[i]
         THEN [FadeLed(c, ledPins[i], FALSE) EXCEPT !.ledState[i] = FALSE,
                                                    !.lastAccept[i] = c.now]
         ELSE c

\* faulty variant of EventBody: a drained bit toggles the door state instead
\* of the live level being read
EventBody_Toggle(c, i, pend) ==
    IF ~TestBit(pend, i) THEN c
    ELSE IF InDebounce(c.lastTriggerTime[i], c.now) THEN c
    ELSE Decide([c EXCEPT !.lastTriggerTime[i] = c.now], i, ~c.ledState[i])

\* body of the loop over the drained bits
\* faulty variant of EventBody: the evaluation does not stamp lastTriggerTime
EventBody_NoStamp(c, i, pend) ==
    IF ~TestBit(pend, i) THEN c
    ELSE IF InDebounce(c.lastTriggerTime[i], c.now) THEN c
    ELSE Decide(c, i, DoorOpen(sensorActiveLow[i], gpioLevel[sensorPins[i]]))

\* faulty variant of EventBody: the debounce window is not tested
EventBody_NoDebounce(c, i, pend) ==
    IF ~TestBit(pend, i) THEN c
    ELSE LET c1 == [c EXCEPT !.lastTriggerTime[i] = c.now]
             gpio_state == gpioLevel[sensorPins[i]]
         IN  Decide(c1, i, DoorOpen(sensorActiveLow[i], gpio_state))

EventBody(c, i, pend) ==
    IF ~TestBit(pend, i) THEN c
    ELSE IF InDebounce(c.lastTriggerTime[i], c.now) THEN c
    ELSE LET c1 == [c EXCEPT !.lastTriggerTime[i] = c.now]
             gpio_state == gpioLevel[sensorPins[i]]
         IN  Decide(c1, i, DoorOpen(sensorActiveLow[i], gpio_state))

RECURSIVE EventLoop(_, _, _)
EventLoop(c, i, pend) ==
    IF i = DEV_COUNT THEN c ELSE EventLoop(EventBody(c, i, pend), i + 1, pend)

\* faulty variant of PollBody: the polling path without its debounce test
PollBody_NoDebounce(c, i) ==
    LET raw == gpioLevel[sensorPins[i]] # FALSE
        c1 == IF raw # c.lastRawState[i]
              THEN Decide([c EXCEPT !.lastTriggerTime[i] = c.now], i,
                          DoorOpen(sensorActiveLow[i], raw))
              ELSE c
    IN  [c1 EXCEPT !.lastRawState[i] = raw]

\* faulty variant of PollBody: lastRawState follows the raw level only when
\* the change has passed the debounce window
PollBody_RawOnEvaluation(c, i) ==
    LET raw == gpioLevel[sensorPins[i]] # FALSE
    IN  IF raw # c.lastRawState[i] /\ ~InDebounce(c.lastTriggerTime[i], c.now)
        THEN [Decide([c EXCEPT !.lastTriggerTime[i] = c.now], i,
                     DoorOpen(sensorActiveLow[i], raw))
                 EXCEPT !.lastRawState[i] = raw]
        ELSE c

\* faulty variant of PollBody: the polling path takes a HIGH level for an
\* open door whatever the polarity of the channel
PollBody_IgnoresPolarity(c, i) ==
    LET raw == gpioLevel[sensorPins[i]] # FALSE
        c1 == IF raw # c.lastRawState[i]
              THEN IF ~InDebounce(c.lastTriggerTime[i], c.now)
                   THEN Decide([c EXCEPT !.lastTriggerTime[i] = c.now], i, raw)
                   ELSE c
              ELSE c
    IN  [c1 EXCEPT !.lastRawState[i] = raw]

\* body of the polling loop
PollBody(c, i) ==
    LET raw == gpioLevel[sensorPins[i]] # FALSE
        c1 == IF raw # c.lastRawState[i]
              THEN IF ~InDebounce(c.lastTriggerTime[i], c.now)
                   THEN Decide([c EXCEPT !.lastTriggerTime[i] = c.now], i,
                               DoorOpen(sensorActiveLow[i], raw))
                   ELSE c
              ELSE c
    IN  [c1 EXCEPT !.lastRawState[i] = raw]

RECURSIVE PollLoop(_, _)
PollLoop(c, i) ==
    IF i = DEV_COUNT THEN c ELSE PollLoop(PollBody(c, i), i + 1)

\* faulty variant of StepUp: the step not clamped to the target
StepUp_NoClamp(cur, tgt) == cur + FADE_STEP

\* faulty variant of StepUp: two steps at once, clamped to the target
StepUp_DoubleStep(cur, tgt) ==
    LET next == cur + 2 * FADE_STEP
    IN  IF next > tgt THEN tgt ELSE next

\* faulty variant of StepDown: half a step per call
StepDown_HalfStep(cur) ==
    IF cur > FADE_STEP THEN cur - FADE_STEP \div 2 ELSE 0

\* faulty variant of StepDown: the step not floored at zero
StepDown_NoFloor(cur) == cur - FADE_STEP

\* uint32_t next = cur + FADE_STEP; if (next > tgt) next = tgt;
\* (cur is a widened uint16_t, so the 32-bit sum cannot wrap)
StepUp(cur, tgt) ==
    LET next == cur + FADE_STEP
    IN  IF next > tgt THEN tgt ELSE next

\* uint32_t next = cur > FADE_STEP ? cur - FADE_STEP : 0;
StepDown(cur) == IF cur > FADE_STEP THEN cur - FADE_STEP ELSE 0

\* faulty variant of FadeBody: a channel retargeted in this call waits for
\* the next call before it takes its first step
FadeBody_SkipFresh(c, i) ==
    IF ~c.fading[i] \/ c.lastAccept[i] = c.now THEN c
    ELSE LET cur == c.currentLevel[i]
             tgt == c.targetLevel[i]
         IN  IF cur = tgt THEN [c EXCEPT !.fading[i] = FALSE,
                                         !.redirected[i] = "none"]
             ELSE LET lvl == U16(IF cur < tgt THEN StepUp(cur, tgt)
                                              ELSE StepDown(cur))
                  IN  [c EXCEPT !.currentLevel[i] = lvl,
                                !.pwmLevel[ledPins[i]] = lvl,
                                !.fading[i] = (lvl # tgt),
                                !.now = c.now + FADING_STEP_MS,
                                !.redirected[i] = "none"]

\* faulty variant of FadeBody: fading is not cleared in the step that arrives
FadeBody_NoClear(c, i) ==
    IF ~c.fading[i] THEN c
    ELSE LET cur == c.currentLevel[i]
             tgt == c.targetLevel[i]
         IN  IF cur = tgt THEN [c EXCEPT !.fading[i] = FALSE,
                                         !.redirected[i] = "none"]
             ELSE LET lvl == U16(IF cur < tgt THEN StepUp(cur, tgt)
                                              ELSE StepDown(cur))
                  IN  [c EXCEPT !.currentLevel[i] = lvl,
                                !.pwmLevel[ledPins[i]] = lvl,
                                !.now = c.now + FADING_STEP_MS,
                                !.redirected[i] = "none"]

\* body of the fade loop
FadeBody(c, i) ==
    IF ~c.fading[i] THEN c
    ELSE LET cur == c.currentLevel[i]
             tgt == c.targetLevel[i]
         IN  IF cur = tgt THEN [c EXCEPT !.fading[i] = FALSE,
                                         !.redirected[i] = "none"]
             ELSE LET lvl == U16(IF cur < tgt THEN StepUp(cur, tgt)
                                              ELSE StepDown(cur))
                  IN  [c EXCEPT !.currentLevel[i] = lvl,
                                !.pwmLevel[ledPins[i]] = lvl,
                                !.fading[i] = (lvl # tgt),
                                !.now = c.now + FADING_STEP_MS,
                                !.redirected[i] = "none"]

RECURSIVE FadeLoop(_, _)
FadeLoop(c, i) ==
    IF i = DEV_COUNT THEN c ELSE FadeLoop(FadeBody(c, i), i + 1)

\* history: a channel whose input was last touched by an edge ("edge"), by
\* a level change without interrupt while polling was on ("missed") or by a
\* polarity flip
\* ("flip") is armed when a process() call starts after that with the channel
\* outside its debounce window
Armed(w, i) ==
    IF now - lastTriggerTime[i] >= DEBOUNCE_MS
    THEN (IF w = "edge" THEN "edgeArmed" ELSE IF w = "flip" THEN "flipArmed"
          ELSE IF w = "missed" THEN "missedArmed" ELSE w)
    ELSE w

\* uint8_t pending = pendingMask.exchange(0)
ProcessDrain ==
    /\ pc = "idle"
    /\ pending' = pendingMask
    /\ pendingMask' = 0
    /\ pc' = "events"
    /\ irqsSinceDrain' = [i \in Channels |-> 0]
    /\ watch' = [i \in Channels |-> Armed(watch[i], i)]
    /\ UNCHANGED <<pinVars, lastTriggerTime, ledState, currentLevel, targetLevel,
                   fading, lastRawState, sensorActiveLow, pollingFallback,
                   hwVars, edgesLeft, configsLeft, envVars,
                   cfgVars, lastCall, irqPrints, lastAccept,
                   redirected>>

\* 1. the drained interrupt events
ProcessEvents ==
    /\ pc = "events"
    /\ LET c == EventLoop(Arrays, 0, pending)
       IN  /\ lastTriggerTime' = c.lastTriggerTime
           /\ ledState' = c.ledState
           /\ currentLevel' = c.currentLevel
           /\ targetLevel' = c.targetLevel
           /\ fading' = c.fading
           /\ lastAccept' = c.lastAccept
           /\ redirected' = c.redirected
    /\ pc' = "poll"
    /\ UNCHANGED <<pinVars, lastRawState, pendingMask, sensorActiveLow,
                   pollingFallback, hwVars, pending, edgesLeft, configsLeft,
                   envVars,
                   cfgVars, lastCall, irqPrints, irqsSinceDrain, watch>>

\* faulty variant of ProcessPoll: the polling loop runs whatever the flag says
ProcessPoll_Always ==
    /\ pc = "poll"
    /\ LET c == PollLoop(Arrays, 0)
       IN  /\ lastTriggerTime' = c.lastTriggerTime
           /\ ledState' = c.ledState
           /\ currentLevel' = c.currentLevel
           /\ targetLevel' = c.targetLevel
           /\ fading' = c.fading
           /\ lastRawState' = c.lastRawState
           /\ lastAccept' = c.lastAccept
           /\ redirected' = c.redirected
    /\ pc' = "fade"
    /\ UNCHANGED <<pinVars, pendingMask, sensorActiveLow, pollingFallback,
                   hwVars, pending, edgesLeft, configsLeft, envVars,
                   irqsSinceDrain, watch, cfgVars, lastCall, irqPrints>>

\* 2. the polling fallback
ProcessPoll ==
    /\ pc = "poll"
    /\ LET c == IF pollingFallback THEN PollLoop(Arrays, 0) ELSE Arrays
       IN  /\ lastTriggerTime' = c.lastTriggerTime
           /\ ledState' = c.ledState
           /\ currentLevel' = c.currentLevel
           /\ targetLevel' = c.targetLevel
           /\ fading' = c.fading
           /\ lastRawState' = c.lastRawState
           /\ lastAccept' = c.lastAccept
           /\ redirected' = c.redirected
    /\ pc' = "fade"
    /\ UNCHANGED <<pinVars, pendingMask, sensorActiveLow, pollingFallback,
                   hwVars, pending, edgesLeft, configsLeft, envVars,
                   cfgVars, lastCall, irqPrints,
                   irqsSinceDrain, watch>>

\* 3. the fade loop; process() returns
ProcessFade ==
    /\ pc = "fade"
    /\ LET c == FadeLoop(Arrays, 0)
       IN  /\ currentLevel' = c.currentLevel
           /\ fading' = c.fading
           /\ pwmLevel' = c.pwmLevel
           /\ now' = c.now
           /\ redirected' = c.redirected
    /\ pc' = "sleep"
    /\ UNCHANGED <<pinVars, lastTriggerTime, ledState, targetLevel,
                   lastRawState, pendingMask, sensorActiveLow, pollingFallback,
                   gpioLevel, irqEnabled, pending, edgesLeft, configsLeft,
                   envVars,
                   cfgVars, lastCall, irqPrints, lastAccept, irqsSinceDrain, watch>>

(***************************************************************************)
(* The main loop between two process() calls, and the configuration calls  *)
(* the caller may make there.                                              *)
(***************************************************************************)
\* sleep_ms(50) of the main loop
Sleep ==
    /\ pc = "sleep"
    /\ now + LOOP_SLEEP_MS <= horizon
    /\ now' = now + LOOP_SLEEP_MS
    /\ pc' = "idle"
    /\ UNCHANGED <<ctrlVars, gpioLevel, irqEnabled, pwmLevel, pending, edgesLeft,
                   configsLeft, envVars,
                   cfgVars, lastCall, irqPrints, histVars>>

\* history: a flip of the polarity of a channel whose door state was
\* resolved correctly before the flip
Flipped(w, i, polarity) ==
    IF polarity[i] = sensorActiveLow[i] THEN w
    ELSE IF ledState[i] = DoorOpen(sensorActiveLow[i], gpioLevel[sensorPins[i]])
         THEN "flip"
         ELSE "none"

\* CabinetLight::setSensorPolarity
SetSensorPolarity(polarity) ==
    /\ pc = "idle"
    /\ configsLeft > 0
    /\ sensorActiveLow' = polarity
    /\ configsLeft' = configsLeft - 1
    /\ watch' = [i \in Channels |-> Flipped(watch[i], i, polarity)]
    /\ lastCall' = [op |-> "setSensorPolarity", arg |-> polarity, ret |-> TRUE]
    /\ UNCHANGED <<pinVars, lastTriggerTime, ledState, currentLevel, targetLevel,
                   fading, lastRawState, pendingMask, pollingFallback, hwVars,
                   pc, pending, edgesLeft, envVars,
                   cfgVars, irqPrints, lastAccept, irqsSinceDrain,
                   redirected>>

\* CabinetLight::getPollingFallback
GetPollingFallback == pollingFallback

\* CabinetLight::isInitialized
IsInitialized == initialized

\* CabinetLight::setPollingFallback
SetPollingFallback(enable) ==
    /\ pc = "idle"
    /\ configsLeft > 0
    /\ pollingFallback' = enable
    /\ configsLeft' = configsLeft - 1
    /\ lastCall' = [op |-> "setPollingFallback", arg |-> <<enable>>, ret |-> TRUE]
    /\ UNCHANGED <<pinVars, lastTriggerTime, ledState, currentLevel, targetLevel,
                   fading, lastRawState, pendingMask, sensorActiveLow, hwVars,
                   pc, pending, edgesLeft, envVars,
                   cfgVars, irqPrints, histVars>>

(***************************************************************************)
(* Pin setup: setupPwmLEDs and setupSensors, as the constructor and the    *)
(* two pin setters run them.  The state they work on is gathered in one    *)
(* record; ret is the return value of the last setup call and ok the flag  *)
(* the caller clears when a setup call returns false.                      *)
(***************************************************************************)
Setup ==
    [ledPins |-> ledPins, sensorPins |-> sensorPins,
     lastTriggerTime |-> lastTriggerTime, ledState |-> ledState,
     currentLevel |-> currentLevel, targetLevel |-> targetLevel,
     fading |-> fading, pwmLevel |-> pwmLevel, pwmEnabled |-> pwmEnabled,
     irqEnabled |-> irqEnabled, now |-> now, ret |-> TRUE, ok |-> TRUE]

\* faulty variant of SetupPwmLEDs: the test pulse is not switched off
SetupPwmLEDs_LeavesOn(h, gpio) ==
    IF gpio > MAX_GPIO THEN [h EXCEPT !.ret = FALSE]
    ELSE LET idx == FindIndex(h.ledPins, gpio)
             h1 == [h EXCEPT !.pwmEnabled = @ \cup {PwmGpioToSliceNum(gpio)},
                             !.pwmLevel[gpio] = PWM_WRAP,
                             !.now = @ + PWM_TEST_DELAY_MS,
                             !.ret = TRUE]
         IN  IF idx = DEV_COUNT THEN h1
             ELSE [h1 EXCEPT !.currentLevel[idx] = 0,
                             !.targetLevel[idx] = 0,
                             !.fading[idx] = FALSE]

\* CabinetLight::setupPwmLEDs(gpio)
SetupPwmLEDs(h, gpio) ==
    IF gpio > MAX_GPIO THEN [h EXCEPT !.ret = FALSE]
    ELSE LET idx == FindIndex(h.ledPins, gpio)
             h1 == [h EXCEPT !.pwmEnabled = @ \cup {PwmGpioToSliceNum(gpio)},
                             !.pwmLevel[gpio] = 0,
                             !.now = @ + PWM_TEST_DELAY_MS,
                             !.ret = TRUE]
         IN  IF idx = DEV_COUNT THEN h1
             ELSE [h1 EXCEPT !.currentLevel[idx] = 0,
                             !.targetLevel[idx] = 0,
                             !.fading[idx] = FALSE]

\* CabinetLight::setupSensors(gpio)
SetupSensors(h, gpio) ==
    IF gpio > MAX_GPIO THEN [h EXCEPT !.ret = FALSE]
    ELSE LET idx == FindIndex(h.sensorPins, gpio)
             h1 == [h EXCEPT !.irqEnabled = @ \cup {gpio}, !.ret = TRUE]
         IN  IF idx = DEV_COUNT THEN h1
             ELSE [h1 EXCEPT !.lastTriggerTime[idx] = h.now]

\* faulty variant of ClearOnFailure: a failed setup is not recorded
ClearOnFailure_Ignored(h) == h

\* if (!setupPwmLEDs(g)) ok = false;   (initialized = false in the constructor)
ClearOnFailure(h) == IF h.ret THEN h ELSE [h EXCEPT !.ok = FALSE]

\* for (uint8_t g : ledPins) { if (!setupPwmLEDs(g)) ... }
RECURSIVE LedSetupLoop(_, _)
LedSetupLoop(h, k) ==
    IF k = DEV_COUNT THEN h
    ELSE LedSetupLoop(ClearOnFailure(SetupPwmLEDs(h, h.ledPins[k])), k + 1)

\* for (uint8_t g : sensorPins) { if (!setupSensors(g)) ... }
RECURSIVE SensorSetupLoop(_, _)
SensorSetupLoop(h, k) ==
    IF k = DEV_COUNT THEN h
    ELSE SensorSetupLoop(ClearOnFailure(SetupSensors(h, h.sensorPins[k])), k + 1)

\* faulty variants of ValidPins: only the first element tested, none tested
ValidPins_FirstOnly(pins) == ~(pins[0] > MAX_GPIO)
ValidPins_None(pins) == TRUE

\* the validity loop of setLedPins and setSensorPins: no element above 29
ValidPins(pins) == \A i \in Channels : ~(pins[i] > MAX_GPIO)

\* CabinetLight::setLedPins
SetLedPins(pins) ==
    /\ pc = "idle"
    /\ configsLeft > 0
    /\ configsLeft' = configsLeft - 1
    /\ IF ~ValidPins(pins)
       THEN /\ lastCall' = [op |-> "setLedPins", arg |-> pins, ret |-> FALSE]
            /\ UNCHANGED <<ledPins, currentLevel, targetLevel, fading, pwmLevel,
                           pwmEnabled, now>>
       ELSE LET off == {PwmGpioToSliceNum(ledPins[i]) : i \in Channels}
                h == LedSetupLoop([Setup EXCEPT !.pwmEnabled = @ \ off,
                                                !.ledPins = pins], 0)
            IN  /\ ledPins' = h.ledPins
                /\ currentLevel' = h.currentLevel
                /\ targetLevel' = h.targetLevel
                /\ fading' = h.fading
                /\ pwmLevel' = h.pwmLevel
                /\ pwmEnabled' = h.pwmEnabled
                /\ now' = h.now
                /\ lastCall' = [op |-> "setLedPins", arg |-> pins, ret |-> h.ok]
    /\ UNCHANGED <<sensorPins, initialized, lastTriggerTime, ledState,
                   lastRawState, pendingMask, sensorActiveLow, pollingFallback,
                   gpioLevel, irqEnabled, pc, pending, edgesLeft, envVars,
                   histVars, logLevel, irqPrints>>

\* faulty variant of SetSensorPins: a rejected call clears initialized, as
\* a failed setup does in the constructor
SetSensorPins_ClearsInitialized(pins) ==
    /\ pc = "idle"
    /\ configsLeft > 0
    /\ configsLeft' = configsLeft - 1
    /\ IF ~ValidPins(pins)
       THEN /\ lastCall' = [op |-> "setSensorPins", arg |-> pins, ret |-> FALSE]
            /\ initialized' = FALSE
            /\ UNCHANGED <<sensorPins, lastTriggerTime, irqEnabled, watch>>
       ELSE LET off == {sensorPins[i] : i \in Channels}
                h == SensorSetupLoop([Setup EXCEPT !.irqEnabled = @ \ off,
                                                   !.sensorPins = pins], 0)
            IN  /\ sensorPins' = h.sensorPins
                /\ lastTriggerTime' = h.lastTriggerTime
                /\ irqEnabled' = h.irqEnabled
                /\ watch' = [i \in Channels |-> "none"]
                /\ lastCall' = [op |-> "setSensorPins", arg |-> pins, ret |-> h.ok]
                /\ UNCHANGED initialized
    /\ UNCHANGED <<ledPins, ledState, currentLevel, targetLevel,
                   fading, lastRawState, pendingMask, sensorActiveLow,
                   pollingFallback, gpioLevel, pwmLevel, now, pc, pending,
                   edgesLeft, envVars, lastAccept, irqsSinceDrain, redirected,
                   cfgVars, irqPrints>>

\* faulty variant of SetSensorPins: a successful call also clears the
\* pending bits
SetSensorPins_ClearsPending(pins) ==
    /\ pc = "idle"
    /\ configsLeft > 0
    /\ configsLeft' = configsLeft - 1
    /\ IF ~ValidPins(pins)
       THEN /\ lastCall' = [op |-> "setSensorPins", arg |-> pins, ret |-> FALSE]
            /\ UNCHANGED <<sensorPins, lastTriggerTime, irqEnabled, watch,
                           pendingMask>>
       ELSE LET off == {sensorPins[i] : i \in Channels}
                h == SensorSetupLoop([Setup EXCEPT !.irqEnabled = @ \ off,
                                                   !.sensorPins = pins], 0)
            IN  /\ sensorPins' = h.sensorPins
                /\ lastTriggerTime' = h.lastTriggerTime
                /\ irqEnabled' = h.irqEnabled
                /\ watch' = [i \in Channels |-> "none"]
                /\ lastCall' = [op |-> "setSensorPins", arg |-> pins, ret |-> h.ok]
                /\ pendingMask' = 0
    /\ UNCHANGED <<ledPins, initialized, ledState, currentLevel, targetLevel,
                   fading, lastRawState, sensorActiveLow,
                   pollingFallback, gpioLevel, pwmLevel, now, pc, pending,
                   edgesLeft, envVars, lastAccept, irqsSinceDrain, redirected,
                   cfgVars, irqPrints>>

\* CabinetLight::setSensorPins
SetSensorPins(pins) ==
    /\ pc = "idle"
    /\ configsLeft > 0
    /\ configsLeft' = configsLeft - 1
    /\ IF ~ValidPins(pins)
       THEN /\ lastCall' = [op |-> "setSensorPins", arg |-> pins, ret |-> FALSE]
            /\ UNCHANGED <<sensorPins, lastTriggerTime, irqEnabled, watch>>
       ELSE LET off == {sensorPins[i] : i \in Channels}
                h == SensorSetupLoop([Setup EXCEPT !.irqEnabled = @ \ off,
                                                   !.sensorPins = pins], 0)
            IN  /\ sensorPins' = h.sensorPins
                /\ lastTriggerTime' = h.lastTriggerTime
                /\ irqEnabled' = h.irqEnabled
                /\ watch' = [i \in Channels |-> "none"]
                /\ lastCall' = [op |-> "setSensorPins", arg |-> pins, ret |-> h.ok]
    /\ UNCHANGED <<ledPins, initialized, ledState, currentLevel, targetLevel,
                   fading, lastRawState, pendingMask, sensorActiveLow,
                   pollingFallback, gpioLevel, pwmLevel, now, pc, pending,
                   edgesLeft, envVars, lastAccept, irqsSinceDrain, redirected,
                   cfgVars, irqPrints>>

\* CabinetLight::runStartupTest: every LED on for STARTUP_LED_ON_MS, then off
RunStartupTest ==
    /\ pc = "idle"
    /\ configsLeft > 0
    /\ configsLeft' = configsLeft - 1
    /\ now' = now + DEV_COUNT * (STARTUP_LED_ON_MS + STARTUP_LED_OFF_MS)
    /\ pwmLevel' = [g \in Gpios |->
                       IF \E i \in Channels : ledPins[i] = g THEN 0 ELSE pwmLevel[g]]
    /\ lastCall' = [op |-> "runStartupTest", arg |-> <<>>, ret |-> TRUE]
    /\ UNCHANGED <<ctrlVars, gpioLevel, irqEnabled, pc, pending, edgesLeft,
                   envVars, histVars, cfgVars, irqPrints>>

\* CabinetLight::setLogLevel
SetLogLevel(level) ==
    /\ pc = "idle"
    /\ configsLeft > 0
    /\ configsLeft' = configsLeft - 1
    /\ logLevel' = level
    /\ lastCall' = [op |-> "setLogLevel", arg |-> <<level>>, ret |-> TRUE]
    /\ UNCHANGED <<ctrlVars, hwVars, pc, pending, edgesLeft, envVars, histVars,
                   pwmEnabled, irqPrints>>

EdgeAny == \E p \in Gpios, lvl \in BOOLEAN : Edge(p, lvl)
MissedEdgeAny == \E p \in Gpios : MissedEdge(p)

\* the polarity arrays tried: any polarity for the channels whose door moves
Polarities ==
    {f \in [Channels -> BOOLEAN] : \A i \in Channels \ wired : f[i] = sensorActiveLow[i]}
SetSensorPolarityAny == \E polarity \in Polarities : SetSensorPolarity(polarity)
SetPollingFallbackAny == \E enable \in BOOLEAN : SetPollingFallback(enable)

Next ==
    \/ EdgeAny
    \/ MissedEdgeAny
    \/ ProcessDrain
    \/ ProcessEvents
    \/ ProcessPoll
    \/ ProcessFade
    \/ Sleep
    \/ SetSensorPolarityAny
    \/ SetPollingFallbackAny

Spec == Init /\ [][Next]_vars

(***************************************************************************)
(* The same controller followed over whole fades: the default              *)
(* configuration is kept, every edge raises its interrupt, the door that   *)
(* moves is the one of channel 0, and the main loop runs long enough for a *)
(* fade up to PWM_WRAP and back down to 0.                                 *)
(***************************************************************************)
FadeTimeLimit == BootTime + MaxFadeSleeps * LOOP_SLEEP_MS

InitFade ==
    /\ Constructed
    /\ wired = {0}
    /\ edgesLeft = MaxFadeEdges
    /\ configsLeft = 0
    /\ horizon = FadeTimeLimit

NextFade ==
    \/ EdgeAny
    \/ ProcessDrain
    \/ ProcessEvents
    \/ ProcessPoll
    \/ ProcessFade
    \/ Sleep

SpecFade == InitFade /\ [][NextFade]_vars

(***************************************************************************)
(* The controller with the whole configuration interface: the pin setters  *)
(* with accepted and rejected arguments, the startup test and the log      *)
(* level.  A configuration call that sleeps may pass the horizon; the main *)
(* loop then finishes the process() call it starts and stops.  The door    *)
(* that moves is the one of channel 1, the channel whose pins the          *)
(* arguments with a repeated pin share with channel 0.                     *)
(***************************************************************************)
PinTimeLimit == BootTime + MaxPinSleeps * LOOP_SLEEP_MS

\* a pin array written as the four-element initializer list of the code
PinArray(list) == [i \in Channels |-> list[i + 1]]

\* arguments tried for setLedPins: the defaults, other pins, one pin for two
\* channels, and a pin above 29
LedPinChoices ==
    {DEFAULT_LED_PINS, PinArray(<<10, 11, 12, 13>>), PinArray(<<2, 2, 4, 5>>),
     PinArray(<<2, 3, MAX_GPIO + 1, 5>>), PinArray(<<10, 3, 4, 5>>)}

\* arguments tried for setSensorPins, likewise
SensorPinChoices ==
    {DEFAULT_SENSOR_PINS, PinArray(<<7, 6, 9, 8>>), PinArray(<<6, 6, 8, 8>>),
     PinArray(<<6, 7, 8, MAX_GPIO + 1>>), PinArray(<<16, 7, 8, 9>>)}

SetLedPinsAny == \E pins \in LedPinChoices : SetLedPins(pins)
SetSensorPinsAny == \E pins \in SensorPinChoices : SetSensorPins(pins)
SetLogLevelAny == \E level \in {LOG_INFO, LOG_DEBUG} : SetLogLevel(level)

InitPins ==
    /\ Constructed
    /\ wired = {1}
    /\ edgesLeft = MaxPinEdges
    /\ configsLeft = MaxPinConfig
    /\ horizon = PinTimeLimit

NextPins ==
    \/ EdgeAny
    \/ MissedEdgeAny
    \/ ProcessDrain
    \/ ProcessEvents
    \/ ProcessPoll
    \/ ProcessFade
    \/ Sleep
    \/ SetSensorPolarityAny
    \/ SetPollingFallbackAny
    \/ SetLedPinsAny
    \/ SetSensorPinsAny
    \/ RunStartupTest
    \/ SetLogLevelAny

SpecPins == InitPins /\ [][NextPins]_vars

(***************************************************************************)
(* The reference scenario: default configuration, the door of channel 0    *)
(* closed at boot (input HIGH).  At some moment the input goes LOW; within *)
(* DEBOUNCE_MS of that moment it may bounce once, LOW-HIGH-LOW.  The       *)
(* bounce is placed relative to the first evaluation of the channel, which *)
(* the main loop makes at most LOOP_SLEEP_MS after the input went LOW.     *)
(***************************************************************************)
RefTimeLimit == BootTime + MaxRefSleeps * LOOP_SLEEP_MS
RefPin == DEFAULT_SENSOR_PINS[0]

InitRef ==
    /\ Constructed
    /\ wired = {0}
    /\ gpioLevel[RefPin] = TRUE
    /\ edgesLeft = 3
    /\ configsLeft = 0
    /\ horizon = RefTimeLimit

\* the bounce falls inside the debounce window of the scenario
BounceTime ==
    \/ lastTriggerTime[0] = 0
    \/ now - lastTriggerTime[0] < DEBOUNCE_MS

DoorOpens == edgesLeft = 3 /\ Edge(RefPin, FALSE)
BounceHigh == edgesLeft = 2 /\ BounceTime /\ Edge(RefPin, TRUE)
BounceLow == edgesLeft = 1 /\ BounceTime /\ Edge(RefPin, FALSE)

\* the main-loop sleep of the scenario: a bounce that has begun is over
\* before the debounce window of the first evaluation ends
RefSleep ==
    /\ ~(/\ edgesLeft = 1
          /\ lastTriggerTime[0] # 0
          /\ now + LOOP_SLEEP_MS - lastTriggerTime[0] >= DEBOUNCE_MS)
    /\ Sleep

NextRef ==
    \/ DoorOpens
    \/ BounceHigh
    \/ BounceLow
    \/ ProcessDrain
    \/ ProcessEvents
    \/ ProcessPoll
    \/ ProcessFade
    \/ RefSleep

SpecRef == InitRef /\ [][NextRef]_vars

(***************************************************************************)
(* The controller when no edge interrupt is ever delivered: every level    *)
(* change is a missed edge, and the caller may switch the polling fallback *)
(* on.                                                                     *)
(***************************************************************************)
PollTimeLimit == BootTime + MaxPollSleeps * LOOP_SLEEP_MS

InitPoll ==
    /\ Constructed
    /\ edgesLeft = MaxPollEdges
    /\ configsLeft = MaxConfig
    /\ horizon = PollTimeLimit

NextPoll ==
    \/ MissedEdgeAny
    \/ ProcessDrain
    \/ ProcessEvents
    \/ ProcessPoll
    \/ ProcessFade
    \/ Sleep
    \/ SetPollingFallbackAny

SpecPoll == InitPoll /\ [][NextPoll]_vars

(***************************************************************************)
(* Construction.  SpecBuild starts before the constructor has run: the     *)
(* members hold their in-class initializers, the hardware is untouched.    *)
(* DEFAULT_LED_PINS and DEFAULT_SENSOR_PINS are compile-time arrays; the   *)
(* in-class initializers of ledPins and sensorPins carry the arrays of the *)
(* build, which range over BuildLedPins and BuildSensorPins so that the    *)
(* failure branches of the constructor are exercised.                      *)
(***************************************************************************)
\* every position holds its default or a pin number setup rejects
BuildLedPins ==
    {[i \in Channels |-> IF i \in bad THEN MAX_GPIO + 1 ELSE DEFAULT_LED_PINS[i]] :
        bad \in SUBSET Channels}

BuildSensorPins ==
    {[i \in Channels |-> IF i \in bad THEN MAX_GPIO + 1 ELSE DEFAULT_SENSOR_PINS[i]] :
        bad \in SUBSET Channels}

\* the members' in-class initializers and the untouched hardware
Unconstructed ==
    /\ ledPins \in BuildLedPins
    /\ sensorPins \in BuildSensorPins
    /\ lastTriggerTime = [i \in Channels |-> 0]
    /\ ledState = [i \in Channels |-> FALSE]
    /\ currentLevel = [i \in Channels |-> 0]
    /\ targetLevel = [i \in Channels |-> 0]
    /\ fading = [i \in Channels |-> FALSE]
    /\ lastRawState = [i \in Channels |-> FALSE]
    /\ pendingMask = 0
    /\ sensorActiveLow = [i \in Channels |-> TRUE]
    /\ pollingFallback = FALSE
    /\ initialized = FALSE
    /\ wired \in WiredSets
    /\ \E high \in SUBSET wired :
          gpioLevel = [p \in Gpios |-> \E i \in high : sensorPins[i] = p]
    /\ irqEnabled = {}
    /\ pwmLevel = [p \in Gpios |-> 0]
    /\ now = 0
    /\ pc = "construct"
    /\ pending = 0
    /\ lastAccept = [i \in Channels |-> -1]
    /\ irqsSinceDrain = [i \in Channels |-> 0]
    /\ watch = [i \in Channels |-> "none"]
    /\ redirected = [i \in Channels |-> "none"]
    /\ pwmEnabled = {}
    /\ logLevel = LOG_INFO
    /\ lastCall = NoCall
    /\ irqPrints = 0

\* CabinetLight::CabinetLight().  The interrupt is enabled for sensorPins[0]
\* before any pin is validated; for a pin number above MAX_GPIO the SDK
\* either stops on its parameter assertion (halt) or writes reserved
\* register bits without effect, depending on the build.
Construct(halt) ==
    /\ pc = "construct"
    /\ halt => sensorPins[0] > MAX_GPIO
    /\ LET h0 == [Setup EXCEPT !.ok = TRUE]
           h1 == LedSetupLoop(h0, 0)
           h2 == IF h1.sensorPins[0] > MAX_GPIO THEN h1
                 ELSE [h1 EXCEPT !.irqEnabled = @ \cup {h1.sensorPins[0]}]
           h3 == SensorSetupLoop(h2, 0)
       IN  IF halt
           THEN /\ pc' = "halted"
                /\ initialized' = h1.ok
                /\ currentLevel' = h1.currentLevel
                /\ targetLevel' = h1.targetLevel
                /\ fading' = h1.fading
                /\ pwmLevel' = h1.pwmLevel
                /\ pwmEnabled' = h1.pwmEnabled
                /\ now' = h1.now
                /\ UNCHANGED <<irqEnabled, ledState, lastTriggerTime>>
           ELSE /\ pc' = "idle"
                /\ initialized' = h3.ok
                /\ pwmLevel' = h3.pwmLevel
                /\ pwmEnabled' = h3.pwmEnabled
                /\ irqEnabled' = h3.irqEnabled
                /\ now' = h3.now
                /\ currentLevel' = [i \in Channels |-> 0]
                /\ targetLevel' = [i \in Channels |-> 0]
                /\ fading' = [i \in Channels |-> FALSE]
                /\ ledState' = [i \in Channels |-> FALSE]
                /\ lastTriggerTime' = [i \in Channels |-> 0]
    /\ UNCHANGED <<ledPins, sensorPins, lastRawState, pendingMask,
                   sensorActiveLow, pollingFallback, gpioLevel, pending,
                   edgesLeft, configsLeft, envVars, histVars, logLevel,
                   lastCall, irqPrints>>

ConstructAny == \E halt \in BOOLEAN : Construct(halt)

InitBuild ==
    /\ Unconstructed
    /\ edgesLeft = 0
    /\ configsLeft = 0
    /\ horizon = 0

NextBuild == ConstructAny

SpecBuild == InitBuild /\ [][NextBuild]_vars

(***************************************************************************)
(* fadeLed on its own.  SpecRetarget draws the levels, targets and fading  *)
(* flags of channels 0 and 1 from small sets and applies fadeLed to a pin  *)
(* and a direction chosen freely, as process() does on a transition.       *)
(***************************************************************************)
RetargetLevels == {0, 6 * FADE_STEP, PWM_WRAP}

RetargetPins == {DEFAULT_LED_PINS[i] : i \in Channels} \cup {DEFAULT_SENSOR_PINS[0]}

InitRetarget ==
    /\ ledPins = DEFAULT_LED_PINS
    /\ sensorPins = DEFAULT_SENSOR_PINS
    /\ lastTriggerTime = [i \in Channels |-> 0]
    /\ \E t0, t1 \in {0, PWM_WRAP}, l0, l1 \in RetargetLevels, f0, f1 \in BOOLEAN :
          /\ targetLevel = [i \in Channels |-> IF i = 0 THEN t0 ELSE IF i = 1 THEN t1 ELSE 0]
          /\ currentLevel = [i \in Channels |-> IF i = 0 THEN l0 ELSE IF i = 1 THEN l1 ELSE 0]
          /\ fading = [i \in Channels |-> IF i = 0 THEN f0 ELSE IF i = 1 THEN f1 ELSE FALSE]
    /\ ledState = [i \in Channels |-> targetLevel[i] = PWM_WRAP]
    /\ lastRawState = [i \in Channels |-> FALSE]
    /\ pendingMask = 0
    /\ sensorActiveLow = [i \in Channels |-> TRUE]
    /\ pollingFallback = FALSE
    /\ initialized = TRUE
    /\ wired = {0}
    /\ gpioLevel = [p \in Gpios |-> FALSE]
    /\ irqEnabled = {DEFAULT_SENSOR_PINS[i] : i \in Channels}
    /\ pwmLevel = [p \in Gpios |-> IF \E i \in Channels : ledPins[i] = p
                                   THEN currentLevel[FindIndex(ledPins, p)] ELSE 0]
    /\ now = BootTime
    /\ pc = "idle"
    /\ pending = 0
    /\ lastAccept = [i \in Channels |-> -1]
    /\ irqsSinceDrain = [i \in Channels |-> 0]
    /\ watch = [i \in Channels |-> "none"]
    /\ redirected = [i \in Channels |-> "none"]
    /\ pwmEnabled = {PwmGpioToSliceNum(DEFAULT_LED_PINS[i]) : i \in Channels}
    /\ logLevel = LOG_INFO
    /\ lastCall = NoCall
    /\ irqPrints = 0
    /\ edgesLeft = 0
    /\ configsLeft = MaxRetargets
    /\ horizon = 0

\* fadeLed(gpio, on)
FadeLedCall(gpio, on) ==
    /\ pc = "idle"
    /\ configsLeft > 0
    /\ configsLeft' = configsLeft - 1
    /\ LET c == FadeLed(Arrays, gpio, on)
       IN  /\ targetLevel' = c.targetLevel
           /\ fading' = c.fading
           /\ currentLevel' = c.currentLevel
           /\ redirected' = c.redirected
    /\ lastCall' = [op |-> "fadeLed", arg |-> <<gpio, on>>, ret |-> TRUE]
    /\ UNCHANGED <<pinVars, lastTriggerTime, ledState, lastRawState, pendingMask,
                   sensorActiveLow, pollingFallback, hwVars, pc, pending,
                   edgesLeft, envVars, lastAccept, irqsSinceDrain, watch,
                   cfgVars, irqPrints>>

NextRetarget == \E gpio \in RetargetPins, on \in BOOLEAN : FadeLedCall(gpio, on)

SpecRetarget == InitRetarget /\ [][NextRetarget]_vars

(***************************************************************************)
(* The controller left alone after start-up: the caller configures         *)
(* polarity and polling before the main loop starts, as main() does, and   *)
(* no input ever changes.  The main loop runs for ever.  The clock is      *)
(* followed up to the horizon, which leaves room for a whole fade; once    *)
(* the controller is at rest (nothing pending, nothing fading, every       *)
(* window elapsed, lastRawState equal to the inputs when polling is on) a  *)
(* process() call changes nothing whatever the clock reads, and the clock  *)
(* is no longer advanced.                                                  *)
(***************************************************************************)
StartTimeLimit == BootTime + MaxStartSleeps * LOOP_SLEEP_MS

InitStart ==
    /\ Constructed
    /\ wired = {0}
    /\ edgesLeft = 0
    /\ configsLeft = MaxStartConfig
    /\ horizon = StartTimeLimit

\* the first process() call comes after the configuration calls
StartDrain == configsLeft = 0 /\ ProcessDrain

\* the controller is at rest: the next process() call changes nothing
AtRest ==
    /\ pendingMask = 0
    /\ \A i \in Channels :
          /\ ~fading[i]
          /\ now - lastTriggerTime[i] >= DEBOUNCE_MS
          /\ pollingFallback => lastRawState[i] = gpioLevel[sensorPins[i]]

\* sleep_ms(50) of the main loop with the controller at rest
SleepAtRest ==
    /\ pc = "sleep"
    /\ AtRest
    /\ pc' = "idle"
    /\ UNCHANGED <<ctrlVars, hwVars, pending, edgesLeft, configsLeft, envVars,
                   cfgVars, lastCall, irqPrints, histVars>>

NextStart ==
    \/ SetSensorPolarityAny
    \/ SetPollingFallbackAny
    \/ StartDrain
    \/ ProcessEvents
    \/ ProcessPoll
    \/ ProcessFade
    \/ Sleep
    \/ SleepAtRest

SpecStart == InitStart /\ [][NextStart]_vars /\ WF_vars(NextStart)

(***************************************************************************)
(* Reconfiguration of the sensor pins with an edge still pending.          *)
(* SpecReconf lets the door of channel 1 move before the first             *)
(* configuration call only, so that every bit the main loop drains after   *)
(* setSensorPins was latched by an edge on the old pin.                    *)
(***************************************************************************)
ReconfTimeLimit == BootTime + MaxReconfSleeps * LOOP_SLEEP_MS

InitReconf ==
    /\ Constructed
    /\ wired = {1}
    /\ edgesLeft = MaxReconfEdges
    /\ configsLeft = MaxReconfConfig
    /\ horizon = ReconfTimeLimit

ReconfEdge == lastCall = NoCall /\ EdgeAny

NextReconf ==
    \/ ReconfEdge
    \/ SetSensorPinsAny
    \/ RunStartupTest
    \/ ProcessDrain
    \/ ProcessEvents
    \/ ProcessPoll
    \/ ProcessFade
    \/ Sleep

SpecReconf == InitReconf /\ [][NextReconf]_vars

(***************************************************************************)
(* The first, interrupt-driven variant of the controller                   *)
(* (src/cabinetLight.h, src/cabinetLight.cpp): the handler runs in the     *)
(* interrupt and fadeLed blocks in a loop.  The members it shares with the *)
(* current class keep their variables; currentLevel[i] holds the loop      *)
(* variable `level` of the fade running on LED_PINS[i], fading[i] says     *)
(* that this loop is running, targetLevel[i] > 0 that it was entered with  *)
(* on = true.                                                              *)
(***************************************************************************)
LED_PINS == [i \in 0..(DEV_COUNT - 1) |-> 2 + i]
SENSOR_PINS == [i \in 0..(DEV_COUNT - 1) |-> 6 + i]
LEGACY_PWM_WRAP == 65535
LEGACY_DEBOUNCE_MS == 100
LEGACY_FADE_INCREMENT == 1000
LEGACY_FADE_SLEEP_MS == 2
LegacyTimeLimit == MaxLegacyMs

\* the state after the constructor: PWM outputs at 0, sensors with pull-up,
\* stamped and with their edge interrupts enabled, no time spent
LegacyConstructed ==
    /\ ledPins = LED_PINS
    /\ sensorPins = SENSOR_PINS
    /\ lastTriggerTime = [i \in Channels |-> 0]
    /\ ledState = [i \in Channels |-> FALSE]
    /\ currentLevel = [i \in Channels |-> 0]
    /\ targetLevel = [i \in Channels |-> 0]
    /\ fading = [i \in Channels |-> FALSE]
    /\ lastRawState = [i \in Channels |-> FALSE]
    /\ pendingMask = 0
    /\ sensorActiveLow = [i \in Channels |-> TRUE]
    /\ pollingFallback = FALSE
    /\ initialized = TRUE
    /\ wired = {0}
    /\ \E low \in SUBSET wired :
          gpioLevel = [p \in Gpios |->
                          \E i \in Channels \ low : SENSOR_PINS[i] = p]
    /\ irqEnabled = {SENSOR_PINS[i] : i \in Channels}
    /\ pwmLevel = [p \in Gpios |-> 0]
    /\ now = 0
    /\ pc = "idle"
    /\ pending = 0
    /\ lastAccept = [i \in Channels |-> -1]
    /\ irqsSinceDrain = [i \in Channels |-> 0]
    /\ watch = [i \in Channels |-> "none"]
    /\ redirected = [i \in Channels |-> "none"]
    /\ pwmEnabled = {PwmGpioToSliceNum(LED_PINS[i]) : i \in Channels}
    /\ logLevel = LOG_INFO
    /\ lastCall = NoCall
    /\ irqPrints = 0

InitLegacy ==
    /\ LegacyConstructed
    /\ edgesLeft = MaxLegacyEdges
    /\ configsLeft = MaxLegacyCalls
    /\ horizon = LegacyTimeLimit

\* if (gpio < 0 || gpio >= DEV_COUNT) return;   (gpio is unsigned)
LegacyPinRejected(gpio) == gpio < 0 \/ gpio >= DEV_COUNT

\* the entry of the fade loops on LED i: level = 0 when on (fadeLed first
\* writes 0, fade_led does not), level = PWM_WRAP when off
LegacyFadeEnter(i, on, zero) ==
    /\ fading' = [fading EXCEPT ![i] = TRUE]
    /\ targetLevel' = [targetLevel EXCEPT ![i] = IF on THEN LEGACY_PWM_WRAP ELSE 0]
    /\ currentLevel' = [currentLevel EXCEPT ![i] = IF on THEN 0 ELSE LEGACY_PWM_WRAP]
    /\ pwmLevel' = IF on /\ zero THEN [pwmLevel EXCEPT ![LED_PINS[i]] = 0]
                 ELSE pwmLevel
    /\ pc' = IF on THEN "fadeUp" ELSE "fadeDown"

\* fadeLed(LED_PINS[i], on), then ledState[i] = on, as the handler calls it:
\* a rejected pin returns at once, else the handler waits in the loop
LegacyHandlerFade(i, on) ==
    IF LegacyPinRejected(LED_PINS[i])
    THEN /\ ledState' = [ledState EXCEPT ![i] = on]
         /\ UNCHANGED <<fading, targetLevel, currentLevel, pwmLevel, pc>>
    ELSE /\ LegacyFadeEnter(i, on, TRUE)
         /\ UNCHANGED ledState

\* CabinetLight::handleGpioCallback(gpio, events); the pin is read after
\* the edge
handleGpioCallback(gpio) ==
    LET i == FindIndex(SENSOR_PINS, gpio)
        door_open == ~gpioLevel'[gpio]
    IN  IF LegacyPinRejected(gpio) \/ i = DEV_COUNT
           \/ now - lastTriggerTime[i] < LEGACY_DEBOUNCE_MS
        THEN UNCHANGED <<lastTriggerTime, ledState, fading, targetLevel,
                         currentLevel, pwmLevel, pc>>
        ELSE /\ lastTriggerTime' = [lastTriggerTime EXCEPT ![i] = now]
             /\ IF door_open /\ ~ledState[i]
                THEN LegacyHandlerFade(i, TRUE)
                ELSE IF ~door_open /\ ledState[i]
                THEN LegacyHandlerFade(i, FALSE)
                ELSE UNCHANGED <<ledState, fading, targetLevel, currentLevel,
                                 pwmLevel, pc>>

\* an edge on an interrupt-enabled sensor pin while the core is in the idle
\* loop: gpioCallback passes it to handleGpioCallback
LegacyEdge(p) ==
    /\ pc = "idle"
    /\ edgesLeft > 0
    /\ \E i \in wired : SENSOR_PINS[i] = p
    /\ p \in irqEnabled
    /\ edgesLeft' = edgesLeft - 1
    /\ gpioLevel' = [gpioLevel EXCEPT ![p] = ~gpioLevel[p]]
    /\ handleGpioCallback(p)
    /\ lastCall' = [op |-> "gpioCallback", arg |-> <<p>>, ret |-> TRUE]
    /\ UNCHANGED <<pinVars, lastRawState, pendingMask, sensorActiveLow,
                   pollingFallback, irqEnabled, now, pending, configsLeft,
                   envVars, histVars, cfgVars, irqPrints>>

\* a direct call of CabinetLight::fadeLed(gpio, on) with an LED pin
fadeLed(gpio, on) ==
    /\ pc = "idle"
    /\ configsLeft > 0
    /\ configsLeft' = configsLeft - 1
    /\ lastCall' = [op |-> "fadeLed", arg |-> <<gpio, on>>, ret |-> TRUE]
    /\ IF LegacyPinRejected(gpio)
       THEN UNCHANGED <<fading, targetLevel, currentLevel, pwmLevel, pc>>
       ELSE LegacyFadeEnter(FindIndex(LED_PINS, gpio), on, TRUE)
    /\ UNCHANGED <<pinVars, lastTriggerTime, ledState, lastRawState,
                   pendingMask, sensorActiveLow, pollingFallback, gpioLevel,
                   irqEnabled, now, pending, edgesLeft, envVars, histVars,
                   cfgVars, irqPrints>>

\* a call of the free function fade_led(gpio, on) of the procedural
\* firmware, which has no pin check
fade_led(gpio, on) ==
    /\ pc = "idle"
    /\ configsLeft > 0
    /\ configsLeft' = configsLeft - 1
    /\ lastCall' = [op |-> "fade_led", arg |-> <<gpio, on>>, ret |-> TRUE]
    /\ LegacyFadeEnter(FindIndex(LED_PINS, gpio), on, FALSE)
    /\ UNCHANGED <<pinVars, lastTriggerTime, ledState, lastRawState,
                   pendingMask, sensorActiveLow, pollingFallback, gpioLevel,
                   irqEnabled, now, pending, edgesLeft, envVars, histVars,
                   cfgVars, irqPrints>>

\* the return from a fade loop on LED i: the handler goes on with
\* ledState[i] = on
LegacyFadeReturn(i) ==
    /\ pc' = "idle"
    /\ fading' = [fading EXCEPT ![i] = FALSE]
    /\ ledState' = IF lastCall.op = "gpioCallback"
                   THEN [ledState EXCEPT ![i] = targetLevel[i] > 0]
                   ELSE ledState
    /\ UNCHANGED <<currentLevel, pwmLevel, now>>

\* one pass of  for (uint16_t level = 0; level <= PWM_WRAP; level += 1000)
\*                  { pwm_set_chan_level(.., level); sleep_ms(2); }
\* the counter is 16 bits wide
LegacyFadeUp ==
    /\ pc = "fadeUp"
    /\ \E i \in Channels :
          /\ fading[i]
          /\ IF currentLevel[i] <= LEGACY_PWM_WRAP
             THEN /\ now + LEGACY_FADE_SLEEP_MS <= horizon
                  /\ pwmLevel' = [pwmLevel EXCEPT ![LED_PINS[i]] = currentLevel[i]]
                  /\ now' = now + LEGACY_FADE_SLEEP_MS
                  /\ currentLevel' = [currentLevel EXCEPT
                         ![i] = U16(currentLevel[i] + LEGACY_FADE_INCREMENT)]
                  /\ UNCHANGED <<pc, fading, ledState>>
             ELSE LegacyFadeReturn(i)
    /\ UNCHANGED <<pinVars, lastTriggerTime, targetLevel, lastRawState,
                   pendingMask, sensorActiveLow, pollingFallback, gpioLevel,
                   irqEnabled, pending, edgesLeft, configsLeft, envVars,
                   histVars, cfgVars, lastCall, irqPrints>>

\* one pass of  for (int level = PWM_WRAP; level >= 0; level -= 1000)
\*                  { pwm_set_chan_level(.., level); sleep_ms(2); }
LegacyFadeDown ==
    /\ pc = "fadeDown"
    /\ \E i \in Channels :
          /\ fading[i]
          /\ IF currentLevel[i] >= 0
             THEN /\ now + LEGACY_FADE_SLEEP_MS <= horizon
                  /\ pwmLevel' = [pwmLevel EXCEPT ![LED_PINS[i]] = currentLevel[i]]
                  /\ now' = now + LEGACY_FADE_SLEEP_MS
                  /\ currentLevel' = [currentLevel EXCEPT
                         ![i] = currentLevel[i] - LEGACY_FADE_INCREMENT]
                  /\ UNCHANGED <<pc, fading, ledState>>
             ELSE LegacyFadeReturn(i)
    /\ UNCHANGED <<pinVars, lastTriggerTime, targetLevel, lastRawState,
                   pendingMask, sensorActiveLow, pollingFallback, gpioLevel,
                   irqEnabled, pending, edgesLeft, configsLeft, envVars,
                   histVars, cfgVars, lastCall, irqPrints>>

\* the idle loop of main() (tight_loop_contents) lets time pass, followed in
\* quanta of LegacyIdleMs
LegacyIdle ==
    /\ pc = "idle"
    /\ now + LegacyIdleMs <= horizon
    /\ now' = now + LegacyIdleMs
    /\ UNCHANGED <<ctrlVars, gpioLevel, irqEnabled, pwmLevel, pc, pending,
                   edgesLeft, configsLeft, envVars, histVars, cfgVars,
                   lastCall, irqPrints>>

LegacyEdgeAny == \E p \in Gpios : LegacyEdge(p)
fadeLedAny == \E i \in Channels, on \in BOOLEAN : fadeLed(LED_PINS[i], on)
fade_ledAny == \E i \in Channels, on \in BOOLEAN : fade_led(LED_PINS[i], on)

NextLegacy ==
    \/ LegacyEdgeAny
    \/ fadeLedAny
    \/ fade_ledAny
    \/ LegacyFadeUp
    \/ LegacyFadeDown
    \/ LegacyIdle

SpecLegacy == InitLegacy /\ [][NextLegacy]_vars

(***************************************************************************)
(* Properties of the controller.                                           *)
(***************************************************************************)
\* the logical door state of channel i: the level read under its polarity
LogicalOpen(i) ==
    \/ sensorActiveLow[i] /\ gpioLevel[sensorPins[i]] = FALSE
    \/ ~sensorActiveLow[i] /\ gpioLevel[sensorPins[i]] = TRUE

\* C1: on every channel, a change of ledState[i] is accepted only when at
\* least DEBOUNCE_MS have passed since the previous accepted change of
\* ledState[i], whichever path (drained interrupt bit or polling) makes it.
C1_DebounceSafety ==
    [][\A i \in Channels :
          ledState'[i] # ledState[i] =>
              \/ lastAccept[i] = -1
              \/ now - lastAccept[i] >= DEBOUNCE_MS]_vars

\* a second transition of a channel has been accepted
C1_Witness ==
    \E i \in Channels : ~ledState[i] /\ lastAccept[i] >= BootTime + DEBOUNCE_MS

\* C2: after a burst of edges on channel i, once a process() call has
\* started with the input at rest and the debounce window elapsed, the call
\* ends with ledState[i] equal to the logical door state of the level.
C2_BounceSettles ==
    \A i \in Channels :
        (pc = "sleep" /\ watch[i] = "edgeArmed") => ledState[i] = LogicalOpen(i)

\* C3: with pairwise distinct sensor pins, the bits of pendingMask are at
\* every moment exactly the channels that had an edge interrupt since the
\* last drain, and a drain hands exactly those channels to process() and
\* leaves pendingMask empty.
SensorPinsDistinct ==
    \A i, j \in Channels : i # j => sensorPins[i] # sensorPins[j]

Signalled == {i \in Channels : irqsSinceDrain[i] > 0}

C3_NoLostSignal ==
    [][SensorPinsDistinct =>
          /\ BitsOf(pendingMask') = {i \in Channels : irqsSinceDrain'[i] > 0}
          /\ (pc = "idle" /\ pc' = "events") =>
                 /\ BitsOf(pending') = Signalled
                 /\ pendingMask' = 0]_vars

\* an edge fired after the exchange of the running process() call, which
\* had drained an earlier one
C3_Witness ==
    /\ pc \in {"events", "poll", "fade"}
    /\ \E i \in Channels : TestBit(pending, i) /\ TestBit(pendingMask, i)

\* C4: an edge interrupt on a channel whose pending bit is already set
\* leaves pendingMask, and with it the whole controller state, as the first
\* edge interrupt left it.
C4_CoalescingIdempotent ==
    [][\A i \in Channels :
          (irqsSinceDrain'[i] > irqsSinceDrain[i] /\ irqsSinceDrain[i] > 0) =>
              /\ pendingMask' = pendingMask
              /\ TestBit(pendingMask', i)
              /\ UNCHANGED <<ctrlVars, pending>>]_vars

\* three edge interrupts on one channel between two drains
C4_Witness ==
    \E i \in Channels : irqsSinceDrain[i] >= 3 /\ TestBit(pendingMask, i)

\* the number of fade steps of size FADE_STEP that cover a distance d >= 0
CeilDiv(d, step) == (d + step - 1) \div step

\* the fade loop of a process() call runs in this step
FadeStep == pc = "fade" /\ pc' = "sleep"

\* C5: while a channel fades towards PWM_WRAP from below, every process()
\* call raises currentLevel[i] strictly without passing PWM_WRAP, the
\* number of calls still needed is at most ceil(PWM_WRAP / FADE_STEP) = 13
\* and drops by exactly one per call, and fading[i] is cleared in exactly
\* the call in which currentLevel[i] reaches PWM_WRAP.
C5_FadeUpConvergence ==
    [][\A i \in Channels :
          (FadeStep /\ fading[i] /\ targetLevel[i] = PWM_WRAP
                    /\ currentLevel[i] < PWM_WRAP) =>
              /\ currentLevel'[i] > currentLevel[i]
              /\ currentLevel'[i] <= PWM_WRAP
              /\ CeilDiv(PWM_WRAP - currentLevel[i], FADE_STEP)
                     <= CeilDiv(PWM_WRAP, FADE_STEP)
              /\ CeilDiv(PWM_WRAP, FADE_STEP) = 13
              /\ CeilDiv(PWM_WRAP - currentLevel'[i], FADE_STEP)
                     = CeilDiv(PWM_WRAP - currentLevel[i], FADE_STEP) - 1
              /\ fading'[i] = (currentLevel'[i] # PWM_WRAP)]_vars

\* a fade from 0 has arrived at PWM_WRAP, 13 calls after its retarget
C5_Witness ==
    \E i \in Channels :
        /\ pc = "sleep" /\ ledState[i] /\ ~fading[i]
        /\ currentLevel[i] = PWM_WRAP
        /\ now = lastAccept[i] + 13 * FADING_STEP_MS + 12 * LOOP_SLEEP_MS

\* C6: a retarget of a channel that is fading leaves currentLevel[i] as it
\* is and keeps the channel fading, and the fade step of the same
\* process() call moves currentLevel[i] from that value towards the new
\* target by at most FADE_STEP.
C6_MidFadeRedirection ==
    [][\A i \in Channels :
          /\ (redirected'[i] # "none" /\ redirected'[i] # redirected[i]) =>
                 /\ currentLevel'[i] = currentLevel[i]
                 /\ fading'[i]
                 /\ targetLevel'[i] = (IF redirected'[i] = "up" THEN PWM_WRAP ELSE 0)
          /\ (FadeStep /\ redirected[i] = "up") =>
                 /\ currentLevel'[i] > currentLevel[i]
                 /\ currentLevel'[i] - currentLevel[i] <= FADE_STEP
          /\ (FadeStep /\ redirected[i] = "down") =>
                 /\ currentLevel'[i] < currentLevel[i]
                 /\ currentLevel[i] - currentLevel'[i] <= FADE_STEP]_vars

\* a fade down that had not reached 0 has been turned into a fade up
C6_Witness ==
    \E i \in Channels :
        /\ pc = "fade" /\ redirected[i] = "up"
        /\ currentLevel[i] > 0 /\ currentLevel[i] < PWM_WRAP

\* C7: in every reachable state the current and the target level of every
\* channel lie in 0 .. PWM_WRAP.
C7_LevelRange ==
    \A i \in Channels :
        /\ 0 <= currentLevel[i] /\ currentLevel[i] <= PWM_WRAP
        /\ 0 <= targetLevel[i] /\ targetLevel[i] <= PWM_WRAP

\* the last step of a fade down, from a level below FADE_STEP, has ended at 0
C7_Witness ==
    \E i \in Channels :
        /\ pc = "sleep" /\ currentLevel[i] = 0 /\ ~ledState[i]
        /\ now - lastAccept[i] = 13 * FADING_STEP_MS + 12 * LOOP_SLEEP_MS
        /\ lastAccept[i] >= BootTime + 13 * (FADING_STEP_MS + LOOP_SLEEP_MS)

\* C8: whenever a process() call has completed, every channel has
\* fading[i] = (currentLevel[i] # targetLevel[i]).
C8_FadingFlag ==
    pc \in {"idle", "sleep"} =>
        \A i \in Channels : fading[i] = (currentLevel[i] # targetLevel[i])

\* a process() call has completed with one fade arrived at its target
\* after a retarget, fading cleared
C8_Witness ==
    \E i \in Channels :
        /\ pc = "sleep" /\ lastAccept[i] # -1 /\ ~fading[i]
        /\ currentLevel[i] = targetLevel[i] /\ currentLevel[i] = PWM_WRAP

\* the channel is evaluated in this step: its drained bit is set, or the
\* polling fallback sees a raw level other than the last one, and the
\* debounce window of the channel has elapsed
EvaluatedOutsideWindow(i) ==
    /\ now - lastTriggerTime[i] >= DEBOUNCE_MS
    /\ \/ pc = "events" /\ pc' = "poll" /\ TestBit(pending, i)
       \/ /\ pc = "poll" /\ pc' = "fade" /\ pollingFallback
          /\ gpioLevel[sensorPins[i]] # lastRawState[i]

\* C9: whenever a channel is evaluated outside its debounce window,
\* ledState[i] is afterwards true exactly when the sensor is active-low
\* and the raw level LOW, or active-high and the raw level HIGH.
C9_PolarityCorrectness ==
    [][\A i \in Channels :
          EvaluatedOutsideWindow(i) =>
              /\ ledState'[i] = LogicalOpen(i)
              /\ lastTriggerTime'[i] = now]_vars

\* an active-high channel has just been resolved to open from a HIGH level
C9_Witness ==
    \E i \in Channels :
        /\ pc = "poll" /\ TestBit(pending, i) /\ ~sensorActiveLow[i]
        /\ gpioLevel[sensorPins[i]] /\ ledState[i] /\ lastAccept[i] = now

\* C10: after a polarity flip of a channel whose raw input stays as it
\* was, a process() call that starts with the debounce window elapsed
\* ends with ledState[i] reversed, that is, equal to the logical door state
\* under the new polarity.
C10_PolarityFlipReverses ==
    \A i \in Channels :
        (pc = "sleep" /\ watch[i] = "flipArmed") => ledState[i] = LogicalOpen(i)

\* an edge interrupt on the sensor pin of channel i is handled in this step
IrqStep(i) == irqsSinceDrain'[i] > irqsSinceDrain[i]

\* C11: the interrupt path touches pendingMask only, by one OR of one bit:
\* it writes no other controller field and does no other work, that is, it
\* prints nothing.
C11_OwnershipPartition ==
    [][\A i \in Channels :
          IrqStep(i) =>
              /\ UNCHANGED <<pinVars, lastTriggerTime, ledState, currentLevel,
                             targetLevel, fading, lastRawState, sensorActiveLow,
                             pollingFallback>>
              /\ \E j \in Channels : pendingMask' = BitOr(pendingMask, j)
              /\ irqPrints' = irqPrints]_vars

\* this step is a call of the configuration function op
CallStep(op) == configsLeft' < configsLeft /\ lastCall'.op = op

\* the argument of the call made in this step holds a pin above 29
PinAboveMax == \E k \in Channels : lastCall'.arg[k] > MAX_GPIO

\* C12: a setSensorPins call whose argument holds a pin above 29 returns
\* false and changes nothing: sensorPins, the interrupt enablement,
\* lastTriggerTime, ledState, pendingMask and every other field are as
\* before, and every sensor pin still has its edge interrupt enabled.
C12_SetSensorPinsError ==
    [][(CallStep("setSensorPins") /\ PinAboveMax) =>
          /\ lastCall'.ret = FALSE
          /\ UNCHANGED <<ctrlVars, hwVars, pending, cfgVars>>
          /\ \A i \in Channels : sensorPins'[i] \in irqEnabled']_vars

\* after a rejected setSensorPins call a process() call has accepted a
\* transition from a drained interrupt bit
C12_Witness ==
    /\ lastCall.op = "setSensorPins" /\ ~lastCall.ret
    /\ pc = "poll"
    /\ \E i \in Channels : TestBit(pending, i) /\ lastAccept[i] = now

\* C13: a setLedPins call whose argument holds a pin above 29 returns false
\* and leaves ledPins, the PWM enablement, currentLevel, targetLevel and
\* fading of every channel, and every other field, as before.
C13_SetLedPinsError ==
    [][(CallStep("setLedPins") /\ PinAboveMax) =>
          /\ lastCall'.ret = FALSE
          /\ UNCHANGED <<ledPins, pwmEnabled, currentLevel, targetLevel, fading>>
          /\ UNCHANGED <<ctrlVars, hwVars, pending, cfgVars>>]_vars

\* a setLedPins call has been rejected while a channel was in mid-fade
C13_Witness ==
    /\ lastCall.op = "setLedPins" /\ ~lastCall.ret
    /\ pc = "idle"
    /\ \E i \in Channels : fading[i] /\ currentLevel[i] > 0

\* the levels of the reference scenario, tick by tick
RefLevels ==
    <<1000, 2000, 3000, 4000, 5000, 6000, 7000, 8000, 9000, 10000, 11000,
      12000, 12500>>

\* the number of process() calls completed since channel 0 was resolved
\* open, the resolving call included: a call that fades takes
\* FADING_STEP_MS and the main loop sleeps LOOP_SLEEP_MS after it
RefTick == (now' - lastAccept'[0] + LOOP_SLEEP_MS) \div (FADING_STEP_MS + LOOP_SLEEP_MS)

C15_PollingRepairs ==
    \A i \in Channels :
        (pc = "sleep" /\ pollingFallback /\ watch[i] = "missedArmed") =>
            /\ ledState[i] = LogicalOpen(i)
            /\ targetLevel[i] = NewTarget(LogicalOpen(i))

\* C16: the polling fallback is off as long as setPollingFallback has not
\* been called; getPollingFallback() returns the argument of the last
\* setPollingFallback call and nothing else changes it; while it is off, no
\* step of process() changes lastRawState, the polling step decides
\* nothing, and the event step decides nothing for a channel whose drained
\* bit is not set.
C16_PollingToggle ==
    [][/\ lastCall.op = "none" => ~GetPollingFallback
       /\ IF CallStep("setPollingFallback")
          THEN GetPollingFallback' = lastCall'.arg[1]
          ELSE GetPollingFallback' = GetPollingFallback
       /\ (~pollingFallback /\ pc # "idle") =>
              /\ lastRawState' = lastRawState
              /\ (pc = "poll" /\ pc' = "fade") =>
                     UNCHANGED <<ledState, lastTriggerTime, targetLevel, fading,
                                 currentLevel>>
              /\ \A i \in Channels :
                     (pc = "events" /\ pc' = "poll" /\ ~TestBit(pending, i)) =>
                         /\ ledState'[i] = ledState[i]
                         /\ lastTriggerTime'[i] = lastTriggerTime[i]]_vars

\* the polling step of a process() call has passed over an input whose
\* level differs from lastRawState, the fallback switched off by a call
C16_Witness ==
    /\ pc = "fade" /\ ~GetPollingFallback
    /\ lastCall.op = "setPollingFallback"
    /\ \E i \in Channels :
          /\ gpioLevel[sensorPins[i]] # lastRawState[i]
          /\ ~TestBit(pending, i)
          /\ ledState[i] # LogicalOpen(i)

\* C17: no step after construction (process(), the interrupt, setLedPins
\* and setSensorPins with accepted or rejected arguments,
\* setSensorPolarity, setPollingFallback, runStartupTest, setLogLevel)
\* changes the value isInitialized() returns.
C17_InitializedSetOnce == [][IsInitialized' = IsInitialized]_vars

\* a pin setter has rejected its argument and isInitialized() is still true
C17_Witness ==
    /\ lastCall.op \in {"setLedPins", "setSensorPins"} /\ ~lastCall.ret
    /\ IsInitialized

\* the step in which the constructor runs to its end
ConstructStep == pc = "construct" /\ pc' = "idle"

\* C18: construction tolerates partial failure.  isInitialized() is true
\* afterwards exactly if no pin of the build is rejected by its setup; a
\* rejected pin stops neither loop: every LED pin that setup accepts has
\* its PWM slice enabled with duty 0 and has had its test pulse, and every
\* sensor pin that setup accepts has its edge interrupt enabled.
C18_PartialFailureConstruction ==
    [][ConstructStep =>
          LET ledOk == {i \in Channels : ~(ledPins[i] > MAX_GPIO)}
              sensorOk == {i \in Channels : ~(sensorPins[i] > MAX_GPIO)}
          IN  /\ IsInitialized' = (ledOk = Channels /\ sensorOk = Channels)
              /\ \A i \in ledOk :
                    /\ PwmGpioToSliceNum(ledPins[i]) \in pwmEnabled'
                    /\ pwmLevel'[ledPins[i]] = 0
              /\ now' = now + Cardinality(ledOk) * PWM_TEST_DELAY_MS
              /\ \A i \in sensorOk : sensorPins[i] \in irqEnabled'
              /\ pwmEnabled' = {PwmGpioToSliceNum(ledPins[i]) : i \in ledOk}
              /\ irqEnabled' = {sensorPins[i] : i \in sensorOk}]_vars

\* construction has ended with isInitialized() false, and a channel that
\* follows a rejected LED pin and a rejected sensor pin is configured
C18_Witness ==
    /\ pc = "idle" /\ ~IsInitialized
    /\ \E i, j \in Channels :
          /\ i < j
          /\ ledPins[i] > MAX_GPIO /\ sensorPins[i] > MAX_GPIO
          /\ ~(ledPins[j] > MAX_GPIO) /\ ~(sensorPins[j] > MAX_GPIO)
          /\ PwmGpioToSliceNum(ledPins[j]) \in pwmEnabled
          /\ sensorPins[j] \in irqEnabled

\* C19: constructed with the default pins of the repository, the controller
\* has LED pins 2,3,4,5 and sensor pins 6,7,8,9 bound, every channel at
\* currentLevel = targetLevel = 0 with fading and ledState false, duty 0 on
\* every LED pin, the edge interrupt enabled for every sensor pin, and is in
\* the state Constructed from which the main loop starts.
C19_StateAfterConstruction ==
    [][(/\ ConstructStep
        /\ ledPins = DEFAULT_LED_PINS
        /\ sensorPins = DEFAULT_SENSOR_PINS) =>
          /\ ledPins' = PinArray(<<2, 3, 4, 5>>)
          /\ sensorPins' = PinArray(<<6, 7, 8, 9>>)
          /\ \A i \in Channels :
                /\ currentLevel'[i] = 0 /\ targetLevel'[i] = 0
                /\ ~fading'[i] /\ ~ledState'[i]
                /\ pwmLevel'[ledPins'[i]] = 0
                /\ PwmGpioToSliceNum(ledPins'[i]) \in pwmEnabled'
                /\ sensorPins'[i] \in irqEnabled'
          /\ IsInitialized'
          /\ Constructed']_vars

\* the constructor has run to its end on the default pins
C19_Witness ==
    /\ pc = "idle" /\ now = BootTime
    /\ ledPins = DEFAULT_LED_PINS /\ sensorPins = DEFAULT_SENSOR_PINS
    /\ irqEnabled = {6, 7, 8, 9}

\* C20: channels are independent under every pin configuration the setters
\* accept.  The event loop of process() leaves ledState, lastTriggerTime,
\* targetLevel, fading and currentLevel of every channel whose drained bit
\* is clear as they were; the polling loop leaves them as they were for
\* every channel whose input equals lastRawState; the fade loop moves every
\* fading channel that is off its target by exactly one step and leaves
\* the level of every other channel alone.
C20_ChannelIndependence ==
    [][\A j \in Channels :
          LET kept == /\ ledState'[j] = ledState[j]
                      /\ lastTriggerTime'[j] = lastTriggerTime[j]
                      /\ targetLevel'[j] = targetLevel[j]
                      /\ fading'[j] = fading[j]
                      /\ currentLevel'[j] = currentLevel[j]
          IN  /\ (pc = "events" /\ pc' = "poll" /\ ~TestBit(pending, j)) => kept
              /\ (/\ pc = "poll" /\ pc' = "fade"
                  /\ gpioLevel[sensorPins[j]] = lastRawState[j]) => kept
              /\ (pc = "fade" /\ pc' = "sleep") =>
                    /\ ledState'[j] = ledState[j]
                    /\ lastTriggerTime'[j] = lastTriggerTime[j]
                    /\ targetLevel'[j] = targetLevel[j]
                    /\ currentLevel'[j] =
                          IF fading[j] /\ currentLevel[j] < targetLevel[j]
                          THEN StepUp(currentLevel[j], targetLevel[j])
                          ELSE IF fading[j] /\ currentLevel[j] > targetLevel[j]
                          THEN StepDown(currentLevel[j])
                          ELSE currentLevel[j]]_vars

\* C21: the debounce timestamp moves only on an accepted transition.  A
\* step of process() (event loop or polling loop) that changes
\* lastTriggerTime[i] also changes ledState[i]; an evaluation that finds
\* the logical door state equal to ledState[i] leaves the timestamp alone.
C21_StampOnlyOnAccept ==
    [][\A i \in Channels :
          (pc \in {"events", "poll"} /\ lastTriggerTime'[i] # lastTriggerTime[i])
              => ledState'[i] # ledState[i]]_vars

\* C22: debounce rejects and does not defer.  While process() works on a
\* drained bit of channel i that lies inside the debounce window, no step
\* of that call changes ledState[i], lastTriggerTime[i] or targetLevel[i];
\* and no step of the controller sets a bit of pendingMask: only an edge
\* interrupt does, so the rejected channel waits for a new edge.
C22_DebounceRejects ==
    [][/\ \A i \in Channels :
            (/\ pc \in {"events", "poll", "fade"}
             /\ TestBit(pending, i)
             /\ now - lastTriggerTime[i] < DEBOUNCE_MS) =>
                /\ ledState'[i] = ledState[i]
                /\ lastTriggerTime'[i] = lastTriggerTime[i]
                /\ targetLevel'[i] = targetLevel[i]
       /\ edgesLeft' = edgesLeft =>
             \A i \in Channels : TestBit(pendingMask', i) => TestBit(pendingMask, i)]_vars

\* a process() call has ended in which the drained bit of a channel was
\* rejected inside the window although the door state had changed, and the
\* pending mask is empty
C22_Witness ==
    \E i \in Channels :
        /\ pc = "sleep" /\ pendingMask = 0 /\ TestBit(pending, i)
        /\ now - lastTriggerTime[i] > 0
        /\ now - lastTriggerTime[i] < DEBOUNCE_MS
        /\ ledState[i] # LogicalOpen(i)

\* the positions of the main loop in the order process() passes them
ProcessOrder ==
    {<<"idle", "events">>, <<"events", "poll">>, <<"poll", "fade">>,
     <<"fade", "sleep">>, <<"sleep", "idle">>}

\* C23: process() drains the pending mask first, then resolves and
\* retargets the signalled channels, then runs the polling fallback, then
\* the fade loop.  The mask is taken only by the drain, ledState and
\* targetLevel change only in the event and polling steps, currentLevel
\* only in the fade step; and a channel whose transition was accepted in a
\* call takes its first fade step in the fade loop of that same call.
C23_ProcessOrder ==
    [][/\ pc' # pc => <<pc, pc'>> \in ProcessOrder
       /\ (pending' # pending) => (pc = "idle" /\ pc' = "events")
       /\ (pc = "idle" /\ pc' = "events") => (pending' = pendingMask /\ pendingMask' = 0)
       /\ (ledState' # ledState \/ targetLevel' # targetLevel)
              => (pc \in {"events", "poll"} /\ pc' # pc)
       /\ (pc = "poll" /\ ledState' # ledState) => pollingFallback
       /\ currentLevel' # currentLevel => (pc = "fade" /\ pc' = "sleep")
       /\ \A i \in Channels :
             (pc = "fade" /\ pc' = "sleep" /\ lastAccept[i] = now) =>
                 /\ fading[i]
                 /\ currentLevel[i] # targetLevel[i]
                 /\ currentLevel'[i] =
                       IF currentLevel[i] < targetLevel[i]
                       THEN StepUp(currentLevel[i], targetLevel[i])
                       ELSE StepDown(currentLevel[i])
                 /\ currentLevel'[i] # currentLevel[i]]_vars

\* a call has ended in which a door opening was accepted by the polling
\* loop and the channel has taken its first step up
C23_Witness ==
    \E i \in Channels :
        /\ pc = "sleep" /\ ledState[i] /\ pollingFallback
        /\ ~TestBit(pending, i)
        /\ now = lastAccept[i] + FADING_STEP_MS
        /\ currentLevel[i] = FADE_STEP

\* C24: retarget is idempotent.  fadeLed(gpio, on) never touches
\* currentLevel and touches only the channel of gpio; when targetLevel of
\* that channel already equals the level asked for, targetLevel and fading
\* stay as they are; otherwise targetLevel takes the new level and fading
\* becomes true.  So fading goes from false to true only together with a
\* change of targetLevel.
C24_RetargetIdempotent ==
    [][CallStep("fadeLed") =>
          LET gpio == lastCall'.arg[1]
              on == lastCall'.arg[2]
          IN  \A i \in Channels :
                /\ currentLevel'[i] = currentLevel[i]
                /\ (ledPins[i] # gpio \/ targetLevel[i] = NewTarget(on)) =>
                      /\ targetLevel'[i] = targetLevel[i]
                      /\ fading'[i] = fading[i]
                /\ (ledPins[i] = gpio /\ targetLevel[i] # NewTarget(on)) =>
                      /\ targetLevel'[i] = NewTarget(on)
                      /\ fading'[i]
                /\ (fading'[i] /\ ~fading[i]) => targetLevel'[i] # targetLevel[i]]_vars

\* fadeLed has been called with the level the channel already aims at: the
\* channel is off its target and still not fading
C24_Witness ==
    /\ lastCall.op = "fadeLed"
    /\ \E i \in Channels :
          /\ ledPins[i] = lastCall.arg[1]
          /\ targetLevel[i] = NewTarget(lastCall.arg[2])
          /\ ~fading[i]
          /\ currentLevel[i] # targetLevel[i]

\* C25: while a channel fades towards 0 from above, every process() call
\* lowers currentLevel[i] by FADE_STEP, or to 0 when no more than FADE_STEP
\* is left; the number of calls still needed is at most
\* ceil(PWM_WRAP / FADE_STEP) = 13 and drops by exactly one per call, and
\* fading[i] is cleared in exactly the call in which currentLevel[i]
\* reaches 0.
C25_FadeDownConvergence ==
    [][\A i \in Channels :
          (FadeStep /\ fading[i] /\ targetLevel[i] = 0 /\ currentLevel[i] > 0) =>
              /\ currentLevel'[i] < currentLevel[i]
              /\ currentLevel'[i] =
                    IF currentLevel[i] >= FADE_STEP
                    THEN currentLevel[i] - FADE_STEP ELSE 0
              /\ CeilDiv(currentLevel[i], FADE_STEP) <= CeilDiv(PWM_WRAP, FADE_STEP)
              /\ CeilDiv(PWM_WRAP, FADE_STEP) = 13
              /\ CeilDiv(currentLevel'[i], FADE_STEP)
                     = CeilDiv(currentLevel[i], FADE_STEP) - 1
              /\ fading'[i] = (currentLevel'[i] # 0)
              /\ pwmLevel'[ledPins[i]] = currentLevel'[i]]_vars

\* a fade down from PWM_WRAP has arrived at 0 in the 13th call after its
\* retarget, with fading cleared and the duty at 0
C25_Witness ==
    \E i \in Channels :
        /\ pc = "sleep" /\ ~ledState[i] /\ ~fading[i]
        /\ currentLevel[i] = 0 /\ targetLevel[i] = 0
        /\ pwmLevel[ledPins[i]] = 0
        /\ lastAccept[i] # -1
        /\ now = lastAccept[i] + 13 * FADING_STEP_MS + 12 * LOOP_SLEEP_MS

\* C26: every channel is always in one of the four states Idle-Closed,
\* Idle-Open, Fading-Up, Fading-Down: targetLevel[i] is PWM_WRAP when
\* ledState[i] is true and 0 when it is false, and a channel that is not
\* fading stands at its target.
C26_FourStates ==
    \A i \in Channels :
        /\ targetLevel[i] = (IF ledState[i] THEN PWM_WRAP ELSE 0)
        /\ ~fading[i] => currentLevel[i] = targetLevel[i]

\* C27: polling bookkeeping.  With the polling fallback enabled, the
\* polling step of every process() call leaves lastRawState[i] equal to the
\* raw level it read for channel i, accepted transition or not, and no
\* other step writes lastRawState; a poll that reads the level already in
\* lastRawState[i] changes nothing of channel i.
C27_PollingBookkeeping ==
    [][/\ lastRawState' # lastRawState =>
             (pc = "poll" /\ pc' = "fade" /\ pollingFallback)
       /\ (pc = "poll" /\ pc' = "fade" /\ pollingFallback) =>
             \A i \in Channels :
                /\ lastRawState'[i] = gpioLevel[sensorPins[i]]
                /\ gpioLevel[sensorPins[i]] = lastRawState[i] =>
                      /\ ledState'[i] = ledState[i]
                      /\ lastTriggerTime'[i] = lastTriggerTime[i]
                      /\ targetLevel'[i] = targetLevel[i]
                      /\ fading'[i] = fading[i]
                      /\ currentLevel'[i] = currentLevel[i]]_vars

\* in the first process() call the event loop has accepted an opening, the
\* input has gone HIGH again before the polling loop, and the polling loop
\* has read the raw change inside the debounce window: the closing is not
\* accepted and lastRawState holds the new level all the same
C27_Witness ==
    \E i \in Channels :
        /\ pc = "fade" /\ pollingFallback
        /\ now = BootTime /\ lastAccept[i] = BootTime
        /\ ledState[i] /\ ~LogicalOpen(i)
        /\ lastRawState[i] /\ gpioLevel[sensorPins[i]]

\* the channel arrays as the event loop leaves them when it works on the
\* drained bit of channel i in the current state
ResolvedByEvent(i) == EventBody(Arrays, i, Pow2(i))

\* the channel arrays as the polling loop leaves them when it reads, in the
\* current state, a raw level of channel i other than lastRawState[i]
ResolvedByPoll(i) ==
    PollBody([Arrays EXCEPT !.lastRawState[i] = ~gpioLevel[sensorPins[i]]], i)

\* C28: single resolver.  From the same channel state, raw level and time,
\* the event loop working on a drained bit and the polling loop past its
\* raw-change gate leave the same ledState, lastTriggerTime, targetLevel
\* and fading.
C28_SingleResolver ==
    \A i \in Channels :
        /\ ResolvedByEvent(i).ledState = ResolvedByPoll(i).ledState
        /\ ResolvedByEvent(i).lastTriggerTime = ResolvedByPoll(i).lastTriggerTime
        /\ ResolvedByEvent(i).targetLevel = ResolvedByPoll(i).targetLevel
        /\ ResolvedByEvent(i).fading = ResolvedByPoll(i).fading

\* the event loop is about to work on the drained bit of a channel whose
\* door state has changed, outside the window, with the polling fallback
\* enabled and the raw level other than lastRawState: both paths accept the
\* transition
C28_Witness ==
    \E i \in Channels :
        /\ pc = "events" /\ TestBit(pending, i) /\ pollingFallback
        /\ gpioLevel[sensorPins[i]] # lastRawState[i]
        /\ now - lastTriggerTime[i] >= DEBOUNCE_MS
        /\ ResolvedByEvent(i).ledState[i] # ledState[i]
        /\ ResolvedByPoll(i).ledState[i] # ledState[i]

\* the pin array passed to the setter of this step differs from the
\* current one in channel k and in no other channel
OnlyChannelDiffers(current, k) ==
    /\ lastCall'.arg[k] # current[k]
    /\ \A j \in Channels \ {k} : lastCall'.arg[j] = current[j]

\* C29: a successful setLedPins whose argument differs from ledPins in
\* channel k only leaves currentLevel, targetLevel, fading and the duty of
\* the LED pin of every other channel as they were.
C29_SetLedPinsLocal ==
    [][\A k \in Channels :
          (/\ CallStep("setLedPins") /\ lastCall'.ret
           /\ OnlyChannelDiffers(ledPins, k)) =>
              \A j \in Channels \ {k} :
                 /\ currentLevel'[j] = currentLevel[j]
                 /\ targetLevel'[j] = targetLevel[j]
                 /\ fading'[j] = fading[j]
                 /\ pwmLevel'[ledPins[j]] = pwmLevel[ledPins[j]]]_vars

\* C30: a successful setSensorPins whose argument differs from sensorPins
\* in channel k only leaves lastTriggerTime of every other channel as it
\* was, so that the debounce window of those channels is not restarted.
C30_SetSensorPinsLocal ==
    [][\A k \in Channels :
          (/\ CallStep("setSensorPins") /\ lastCall'.ret
           /\ OnlyChannelDiffers(sensorPins, k)) =>
              \A j \in Channels \ {k} :
                 lastTriggerTime'[j] = lastTriggerTime[j]]_vars

\* C31: fading never blocks the control loop.  The fade section of
\* process() only computes levels and writes duties: it takes no time, so
\* the clock reads the same after it as before, however many channels fade.
C31_FadeNeverBlocks ==
    [][FadeStep => now' = now]_vars

\* C32: no overshoot.  targetLevel[i] is always 0 or PWM_WRAP, and a fade
\* step moves currentLevel[i] towards targetLevel[i] by at most FADE_STEP
\* and never past it: upwards it stops at the target, downwards at 0.
C32_NoOvershoot ==
    [][\A i \in Channels :
          /\ targetLevel[i] \in {0, PWM_WRAP}
          /\ targetLevel'[i] \in {0, PWM_WRAP}
          /\ FadeStep =>
                /\ currentLevel'[i] - currentLevel[i] <= FADE_STEP
                /\ currentLevel[i] - currentLevel'[i] <= FADE_STEP
                /\ currentLevel[i] <= targetLevel[i] =>
                      (currentLevel[i] <= currentLevel'[i]
                          /\ currentLevel'[i] <= targetLevel[i])
                /\ currentLevel[i] >= targetLevel[i] =>
                      (targetLevel[i] <= currentLevel'[i]
                          /\ currentLevel'[i] <= currentLevel[i])]_vars

\* the last step of a fade up, from 12000, has been clamped to PWM_WRAP and
\* written to the LED pin
C32_Witness ==
    \E i \in Channels :
        /\ pc = "sleep" /\ targetLevel[i] = PWM_WRAP
        /\ currentLevel[i] = PWM_WRAP /\ pwmLevel[ledPins[i]] = PWM_WRAP
        /\ lastAccept[i] # -1
        /\ now = lastAccept[i] + 13 * FADING_STEP_MS + 12 * LOOP_SLEEP_MS

\* C33: at most one transition per channel per process() call.  When the
\* event loop of a call has accepted a transition of channel i, the polling
\* loop of the same call changes neither ledState[i] nor targetLevel[i] nor
\* lastTriggerTime[i], whatever raw level it reads; and no step changes
\* ledState[i] at the time of an accepted transition of the channel.
C33_OneTransitionPerCall ==
    [][\A i \in Channels :
          /\ (pc = "poll" /\ pc' = "fade" /\ lastAccept[i] = now) =>
                /\ ledState'[i] = ledState[i]
                /\ targetLevel'[i] = targetLevel[i]
                /\ lastTriggerTime'[i] = lastTriggerTime[i]
          /\ ledState'[i] # ledState[i] => lastAccept[i] # now]_vars

\* in one process() call the event loop has accepted the opening signalled
\* by the drained bit, a further edge has taken the input back to HIGH, and
\* the polling loop has seen the raw level differ from lastRawState and has
\* not accepted the closing
C33_Witness ==
    \E i \in Channels :
        /\ pc = "fade" /\ pollingFallback /\ TestBit(pending, i)
        /\ lastAccept[i] = now /\ lastTriggerTime[i] = now
        /\ now = BootTime
        /\ ledState[i] /\ sensorActiveLow[i]
        /\ gpioLevel[sensorPins[i]] /\ lastRawState[i]
        /\ irqsSinceDrain[i] > 0

\* C34: the output matches the model.  Whenever no process() call is under
\* way, so after construction and after every completed process(),
\* setLedPins, setSensorPins and runStartupTest, the duty last written to
\* the LED pin of every channel equals currentLevel of the channel.
C34_OutputMatchesModel ==
    pc \in {"idle", "sleep"} =>
        \A i \in Channels : pwmLevel[ledPins[i]] = currentLevel[i]

\* C35: a door that is already open at start-up is found by the polling
\* fallback.  Once the configuration calls are made, with polling enabled
\* and the raw level of channel i meaning door-open, and no input ever
\* changing, the main loop eventually has ledState[i] true and the LED of
\* the channel at PWM_WRAP.
C35_OpenAtStartup ==
    \A i \in Channels :
        (configsLeft = 0 /\ pollingFallback /\ LogicalOpen(i))
            ~> (ledState[i] /\ currentLevel[i] = PWM_WRAP)


\* a step in which the interrupt handler of the first variant runs for an
\* edge on SENSOR_PINS[i]
LegacyIrqStep(i) ==
    /\ edgesLeft' = edgesLeft - 1
    /\ gpioLevel'[SENSOR_PINS[i]] # gpioLevel[SENSOR_PINS[i]]
    /\ lastCall'.op = "gpioCallback"

\* C36: in the interrupt-driven variant an edge interrupt on SENSOR_PINS[i]
\* outside the debounce window reaches the door-state logic of
\* handleGpioCallback: the channel is stamped, and with the pin reading 0
\* and ledState[i] false LED i is dimmed up (the handler enters the up-fade
\* or ends with ledState[i] true), with the pin reading 1 and ledState[i]
\* true it is dimmed down
C36_EdgeReachesDoorLogic ==
    [][\A i \in Channels :
          (LegacyIrqStep(i) /\ now - lastTriggerTime[i] >= LEGACY_DEBOUNCE_MS)
          => /\ lastTriggerTime'[i] = now
             /\ (~gpioLevel'[SENSOR_PINS[i]] /\ ~ledState[i])
                   => (pc' = "fadeUp" \/ ledState'[i])
             /\ (gpioLevel'[SENSOR_PINS[i]] /\ ledState[i])
                   => (pc' = "fadeDown" \/ ~ledState'[i])]_vars

\* C37: the blocking up-fade of the first variant writes a rising sequence
\* of levels and returns: every pass of the loop either leaves the loop or
\* goes on with a larger level
C37_LegacyFadeUpTerminates ==
    [][\A i \in Channels :
          (pc = "fadeUp" /\ fading[i])
          => (pc' = "idle" \/ currentLevel'[i] > currentLevel[i])]_vars


\* a step in which setSensorPins succeeds
SetSensorPinsStep ==
    /\ configsLeft' = configsLeft - 1
    /\ lastCall'.op = "setSensorPins"
    /\ lastCall'.ret

\* a step in which a transition of channel i is accepted
AcceptStep(i) == lastAccept'[i] # lastAccept[i]

\* C38: sensor setup opens a debounce window: a successful setSensorPins
\* leaves lastTriggerTime[i] of every channel at the time of the call, and
\* no transition of a channel is accepted within DEBOUNCE_MS of its stamp
\* nor within DEBOUNCE_MS of its setup in the constructor (at BootTime)
C38_SetupOpensWindow ==
    [][\A i \in Channels :
          /\ SetSensorPinsStep => lastTriggerTime'[i] = now'
          /\ AcceptStep(i)
                => /\ now' - lastTriggerTime[i] >= DEBOUNCE_MS
                   /\ now' - BootTime >= DEBOUNCE_MS]_vars


\* a step in which the event loop of process() runs
EventsStep == pc = "events" /\ pc' = "poll"

\* C39: pending bits survive sensor reconfiguration.  setSensorPins leaves
\* pendingMask unchanged, the next process() call drains every bit of it,
\* and its event loop handles a drained bit of channel i with the pins of
\* that moment: inside the debounce window of lastTriggerTime[i] the bit is
\* discarded without a read, outside it the channel is stamped and
\* ledState[i] follows the level read from the new sensorPins[i]
C39_PendingSurvivesReconfig ==
    [][/\ (configsLeft' = configsLeft - 1 /\ lastCall'.op = "setSensorPins")
             => pendingMask' = pendingMask
       /\ (pc = "idle" /\ pc' = "events") => pending' = pendingMask
       /\ \A i \in Channels :
             (EventsStep /\ TestBit(pending, i))
             => IF now - lastTriggerTime[i] < DEBOUNCE_MS
                THEN /\ lastTriggerTime'[i] = lastTriggerTime[i]
                     /\ ledState'[i] = ledState[i]
                ELSE /\ lastTriggerTime'[i] = now
                     /\ ledState'[i] = DoorOpen(sensorActiveLow[i],
                                                gpioLevel[sensorPins[i]])]_vars

\* the bit of channel 1, latched by the rising edge on its old pin, has been
\* drained after setSensorPins moved the channel to a pin that reads low,
\* and the event loop has switched the LED on from the level of the new pin
C39_Witness ==
    /\ pc = "poll"
    /\ TestBit(pending, 1)
    /\ lastCall.op = "runStartupTest"
    /\ sensorPins = PinArray(<<7, 6, 9, 8>>)
    /\ gpioLevel[DEFAULT_SENSOR_PINS[1]]
    /\ ~gpioLevel[sensorPins[1]]
    /\ lastTriggerTime[1] = now
    /\ ledState[1]

\* C39 as first stated: after a successful setSensorPins a bit latched by
\* an edge on the old pin is drained by the next process() call and is
\* evaluated by reading the new sensorPins[i]
C39_PendingBitEvaluated ==
    [][/\ SetSensorPinsStep => pendingMask' = pendingMask
       /\ (pc = "idle" /\ pc' = "events") => pending' = pendingMask
       /\ \A i \in Channels :
             (/\ EventsStep
              /\ TestBit(pending, i)
              /\ lastCall.op = "setSensorPins"
              /\ lastCall.ret)
             => /\ lastTriggerTime'[i] = now
                /\ ledState'[i] = DoorOpen(sensorActiveLow[i],
                                           gpioLevel[sensorPins[i]])]_vars

====
